---- MODULE Spec2Model ----
(***************************************************************************)
(* Atlas Financial AI engine: request batching, load balancing with        *)
(* per-endpoint circuit breaking, and the cache's coalesced batch          *)
(* execution (services/ai-engine/src/core/batching.py, caching.py), and    *)
(* the request pipeline of OptimizedAIEngine (optimized_engine.py).        *)
(*                                                                         *)
(* The module holds four state machines over disjoint variables:           *)
(*   SpecLB     - LoadBalancer (select / acquire / release / health loop)  *)
(*   SpecBatch  - RequestBatcher (submit / timer / flush / process)        *)
(*   SpecCache  - InferenceCache.get_or_batch_compute / _execute_batch     *)
(*   SpecEngine - OptimizedAIEngine.process_request over the cache store   *)
(* Each specification leaves the other machines' variables untouched.      *)
(*                                                                         *)
(* Numbers: success_rate is kept in hundredths (1.0 = 100), weights in     *)
(* tenths (1.0 = 10), times in whole seconds, response times in whole      *)
(* milliseconds.                                                           *)
(***************************************************************************)
EXTENDS Integers, Sequences, FiniteSets, TLC

(***************************************************************************)
(* Load balancer: configuration                                            *)
(***************************************************************************)

\* Endpoints in registration order (dict order of LoadBalancer.endpoints).
EndpointOrder == <<"A", "B">>

Endpoints == {EndpointOrder[i] : i \in 1..Len(EndpointOrder)}

\* max_concurrent given to register_endpoint (bound of the model).
MaxConcurrent == 2

max_concurrent == [e \in Endpoints |-> MaxConcurrent]

\* weight given to register_endpoint, in tenths (1.0 and 1.2).
weight == [e \in Endpoints |-> IF e = "A" THEN 10 ELSE 12]

circuit_breaker_threshold == 5

circuit_breaker_timeout == 60

LoadBalancingStrategy ==
    {"round_robin", "least_connections", "weighted_response_time", "resource_based"}

\* The clock advances by these amounts, up to MaxTime.
TickSteps == {60, 61}

MaxTime == 122

\* Requests (successful acquisitions) explored in one behaviour.
MaxRequests == 6

\* response_time_ms values passed to release_endpoint.
RespTimes == {0, 10}

\* last_failure = None
NoTime == -1

NoEndpoint == "none"

\* selected when the last call was not select_endpoint
NoCall == "-"

\* The endpoints whose backend can fail a request.
FailingEndpoints == {"A"}

VARIABLES
    lb_strategy,              \* LoadBalancer.strategy
    current_load,             \* BackendEndpoint.current_load
    healthy,                  \* BackendEndpoint.healthy
    success_rate,             \* BackendEndpoint.success_rate (hundredths)
    avg_response_time_ms,     \* BackendEndpoint.avg_response_time_ms
    round_robin_index,        \* LoadBalancer.round_robin_index
    circuit_breaker_state,    \* LoadBalancer.circuit_breaker_state
    now,                      \* datetime.utcnow(), seconds
    recent_failures,          \* history: length of the current run of failed releases
    requests_started,         \* history: number of successful acquire_endpoint calls
    selected                  \* history: what select_endpoint returned, if it was the last call

lbVars == <<lb_strategy, current_load, healthy, success_rate, avg_response_time_ms,
            round_robin_index, circuit_breaker_state, now, recent_failures,
            requests_started, selected>>

VARIABLES
    batch_strategy,           \* RequestBatcher.config.strategy
    request_queues,           \* RequestBatcher.request_queues
    batch_timers,             \* RequestBatcher.batch_timers: the timer task of each key
    queue_lock,               \* RequestBatcher.queue_lock
    priority_queue,           \* RequestBatcher.priority_queue (heap list)
    submit_state,             \* where each submit_request call stands
    request_key,              \* PendingRequest.batch_key
    future_state,             \* PendingRequest.future
    batches,                  \* the batches handed to _process_batch, in order
    processed                 \* the batches _process_batch has finished

batchVars == <<batch_strategy, request_queues, batch_timers, queue_lock, priority_queue,
               submit_state, request_key, future_state, batches, processed>>

VARIABLES
    pending_requests,         \* InferenceCache.pending_requests
    caller_future,            \* the future each get_or_batch_compute caller awaits
    batch_tasks,              \* the _execute_batch tasks, in creation order
    cached                    \* the callers whose result cache_result has stored

cacheVars == <<pending_requests, caller_future, batch_tasks, cached>>

VARIABLES
    engine_operation,         \* OptimizedAIRequest.operation of this behaviour's requests
    store,                    \* the store entry under each request key (ai_inference:...)
    tag_members,              \* the store sets cache_deps:{tag}
    engine_request,           \* each process_request call: its request, position and response
    engine_pending,           \* InferenceCache.pending_requests[batch_key] for the operation
    invalidation,             \* the invalidate_by_pattern call in progress or last finished
    engine_fresh              \* history: users answered with no expiry or invalidation since

engineVars == <<engine_operation, store, tag_members, engine_request, engine_pending,
                invalidation, engine_fresh>>

VARIABLES
    ttl_operation,            \* operation passed to _calculate_adaptive_ttl
    ttl_confidence,           \* result.get('confidence'), hundredths, or NoConfidence
    base_ttl,                 \* base_ttl passed to _calculate_adaptive_ttl
    setex_ttl                 \* the ttl given to redis.setex, 0 before the write

ttlVars == <<ttl_operation, ttl_confidence, base_ttl, setex_ttl>>

VARIABLES
    key_operation,            \* operation of the two requests
    key_user,                 \* user_id of the two requests
    first_data,               \* data of the first request, keys as listed
    second_data,              \* data of the second request, keys as listed
    redis_keys,               \* the keys the store holds an entry under
    second_lookup             \* what get_cached_result gave the second request

keyVars == <<key_operation, key_user, first_data, second_data, redis_keys, second_lookup>>

VARIABLES
    active_alerts,            \* PerformanceAlerter.active_alerts, by metric type
    alert_history,            \* PerformanceAlerter.alert_history
    perf_alerts_active,       \* the store set perf_alerts:active
    alert_clock,              \* datetime.utcnow(), seconds
    alerting_pc,              \* where _alerting_loop stands
    check_index,              \* the threshold _check_all_thresholds is at
    alert_checks,             \* history: iterations of _alerting_loop so far
    checked_count             \* history: stats["count"] of the last check of this iteration

alertVars == <<active_alerts, alert_history, perf_alerts_active, alert_clock, alerting_pc,
               check_index, alert_checks, checked_count>>

VARIABLES
    compute_pc,               \* where each compute_batch call stands
    compute_endpoint,         \* the local `endpoint` of each compute_batch call
    compute_requests          \* history: requests the compute_batch calls have taken up

computeVars == <<compute_pc, compute_endpoint, compute_requests>>

VARIABLES
    wait_strategy,            \* RequestBatcher.config.strategy
    max_wait_time_ms,         \* RequestBatcher.config.max_wait_time_ms
    wait_queue_len,           \* len(request_queues[batch_key]) at the call
    recent_latencies,         \* adaptive_params['recent_latencies'], in ms
    adaptive_wait             \* what _calculate_adaptive_wait_time returned, as a fraction of ms

waitVars == <<wait_strategy, max_wait_time_ms, wait_queue_len, recent_latencies, adaptive_wait>>

VARIABLES
    orch_pc,                  \* where AIEngineOrchestrator.process_request stands
    orch_request,             \* the AIRequest being processed
    performance_history,      \* BackendSelector.performance_history[MULTI_AGENT]
    failing_agents,           \* the agents whose _execute_agent_task raises
    backend_type,             \* what select_backend returned
    orch_response             \* the AIResponse of backend.execute_request

orchVars == <<orch_pc, orch_request, performance_history, failing_agents, backend_type,
              orch_response>>

VARIABLES
    window_scheduled,         \* batch_key in pending_requests, its _execute_batch task sleeping
    window_pending,           \* len(pending_requests[batch_key])
    window_cancelled,         \* how many futures of pending_requests[batch_key] are cancelled
    passed_requests           \* len(requests) of the last compute_func(requests) call, 0 before

windowVars == <<window_scheduled, window_pending, window_cancelled, passed_requests>>

VARIABLES
    batch_clock,              \* datetime.utcnow(), in seconds
    queued_at,                \* PendingRequest.queued_at of each request
    request_priority          \* PendingRequest.priority of each request

prioVars == <<batch_clock, queued_at, request_priority>>

VARIABLES
    fan_pc,                   \* where _execute_batch stands after the pop
    fan_operation,            \* the operation of the batch
    fan_requests,             \* the local `requests` of _execute_batch
    fan_future,               \* the local `futures`, one per request
    fan_results,              \* the list compute_func returned
    fan_i,                    \* the index of the fan-out loop
    fan_store,                \* the store: entries written by cache_result
    fan_lookup                \* the last get_cached_result call and what it returned

fanVars == <<fan_pc, fan_operation, fan_requests, fan_future, fan_results, fan_i, fan_store,
             fan_lookup>>

vars == <<lbVars, batchVars, cacheVars, engineVars, ttlVars, keyVars, alertVars, computeVars, waitVars, orchVars, windowVars, prioVars, fanVars>>

Min(a, b) == IF a < b THEN a ELSE b

Max(a, b) == IF a > b THEN a ELSE b

\* The elements of a sequence.
Range(s) == {s[i] : i \in 1..Len(s)}

RECURSIVE Fact(_)
Fact(n) == IF n <= 1 THEN 1 ELSE n * Fact(n - 1)

\* round_robin_index is only ever used modulo the number of available
\* endpoints (1..Len(EndpointOrder)), so it is kept modulo a common multiple.
RoundRobinModulus == Fact(Len(EndpointOrder))

(***************************************************************************)
(* Load balancer: helpers                                                  *)
(***************************************************************************)

\* Variant: the timeout comparison is >= instead of >.
is_circuit_closed_at_timeout(cbs, e, t) ==
    LET circuit_state == cbs[e] IN
    CASE circuit_state.state = "closed" -> TRUE
      [] circuit_state.state = "open" ->
            /\ circuit_state.last_failure # NoTime
            /\ t - circuit_state.last_failure >= circuit_breaker_timeout
      [] circuit_state.state = "half_open" -> TRUE
      [] OTHER -> FALSE

\* LoadBalancer._is_circuit_closed: the value it returns.
is_circuit_closed(cbs, e, t) ==
    LET circuit_state == cbs[e] IN
    CASE circuit_state.state = "closed" -> TRUE
      [] circuit_state.state = "open" ->
            /\ circuit_state.last_failure # NoTime
            /\ t - circuit_state.last_failure > circuit_breaker_timeout
      [] circuit_state.state = "half_open" -> TRUE
      [] OTHER -> FALSE

\* Variant: the capacity comparison is <= instead of <.
under_capacity_inclusive(e) == healthy[e] /\ current_load[e] <= max_concurrent[e]

\* The first two conditions of the comprehension in select_endpoint; the
\* circuit check is evaluated only for endpoints that pass them.
under_capacity(e) == healthy[e] /\ current_load[e] < max_concurrent[e]

\* available_endpoints of select_endpoint, in registration order.
available_endpoints ==
    SelectSeq(EndpointOrder,
              LAMBDA e : under_capacity(e) /\ is_circuit_closed(circuit_breaker_state, e, now))

\* Variant: the open circuit is reported closed after the timeout but its
\* state is not moved to half_open.
circuit_after_select_no_transition == circuit_breaker_state

\* LoadBalancer._is_circuit_closed: its side effect (open -> half_open),
\* applied to every endpoint the comprehension evaluates it for.
circuit_after_select ==
    [e \in Endpoints |->
        IF /\ under_capacity(e)
           /\ circuit_breaker_state[e].state = "open"
           /\ is_circuit_closed(circuit_breaker_state, e, now)
        THEN [circuit_breaker_state[e] EXCEPT !.state = "half_open"]
        ELSE circuit_breaker_state[e]]

\* min(endpoints, key=...): the first element with the least key, where
\* Less(a, b) is key(a) < key(b).
MinFirst(s, Less(_, _)) ==
    s[CHOOSE i \in 1..Len(s) :
        /\ \A j \in 1..Len(s) : ~Less(s[j], s[i])
        /\ \A j \in 1..(i - 1) : Less(s[i], s[j])]

\* score_endpoint of _weighted_response_time_select as a fraction num/den:
\* (avg/1000 + (1 - success_rate) + load/max) / weight
score_num(e) ==
    avg_response_time_ms[e] * 100 * max_concurrent[e]
    + (100 - success_rate[e]) * 1000 * max_concurrent[e]
    + current_load[e] * 100000

score_den(e) == max_concurrent[e] * weight[e]

score_less(a, b) == score_num(a) * score_den(b) < score_num(b) * score_den(a)

\* resource_score of _resource_based_select as a fraction num/den:
\* (load/max + min(avg/500, 2)) / weight
resource_num(e) ==
    current_load[e] * 500 + Min(avg_response_time_ms[e], 1000) * max_concurrent[e]

resource_den(e) == max_concurrent[e] * weight[e]

resource_less(a, b) == resource_num(a) * resource_den(b) < resource_num(b) * resource_den(a)

load_less(a, b) == current_load[a] < current_load[b]

round_robin_select(endpoints) == endpoints[(round_robin_index % Len(endpoints)) + 1]

least_connections_select(endpoints) == MinFirst(endpoints, load_less)

weighted_response_time_select(endpoints) ==
    MinFirst(endpoints, score_less)

resource_based_select(endpoints) ==
    MinFirst(endpoints, resource_less)

\* The endpoint select_endpoint returns for a non-empty candidate list.
strategy_select(endpoints) ==
    CASE lb_strategy = "round_robin" -> round_robin_select(endpoints)
      [] lb_strategy = "least_connections" -> least_connections_select(endpoints)
      [] lb_strategy = "weighted_response_time" -> weighted_response_time_select(endpoints)
      [] lb_strategy = "resource_based" -> resource_based_select(endpoints)
      [] OTHER -> Head(endpoints)

\* The moving average of release_endpoint (alpha = 0.1), in whole ms.
moving_average(avg, response_time_ms) == (1 * response_time_ms + 9 * avg) \div 10

\* Variant: the circuit opens one failure above the threshold.
handle_endpoint_failure_above_threshold(circuit_state, t) ==
    LET failures == circuit_state.failures + 1 IN
    [failures |-> failures,
     last_failure |-> t,
     state |-> IF failures > circuit_breaker_threshold THEN "open"
               ELSE circuit_state.state]

\* LoadBalancer._handle_endpoint_failure on one circuit record.
handle_endpoint_failure(circuit_state, t) ==
    LET failures == circuit_state.failures + 1 IN
    [failures |-> failures,
     last_failure |-> t,
     state |-> IF failures >= circuit_breaker_threshold THEN "open"
               ELSE circuit_state.state]

\* Variant: a success in half_open resets the count but leaves the state.
handle_endpoint_success_no_close(circuit_state) ==
    IF circuit_state.state = "half_open"
    THEN [circuit_state EXCEPT !.failures = 0]
    ELSE circuit_state

\* release_endpoint, success branch, on one circuit record.
handle_endpoint_success(circuit_state) ==
    IF circuit_state.state = "half_open"
    THEN [circuit_state EXCEPT !.state = "closed", !.failures = 0]
    ELSE circuit_state

\* LoadBalancer._check_endpoint_health
check_endpoint_health(e) ==
    IF current_load[e] >= max_concurrent[e] THEN FALSE
    ELSE IF success_rate[e] < 50 THEN FALSE
    ELSE TRUE

(***************************************************************************)
(* Load balancer: state machine                                            *)
(***************************************************************************)

\* LoadBalancer() followed by register_endpoint for every endpoint.
LBInit ==
    /\ lb_strategy \in LoadBalancingStrategy
    /\ current_load = [e \in Endpoints |-> 0]
    /\ healthy = [e \in Endpoints |-> TRUE]
    /\ success_rate = [e \in Endpoints |-> 100]
    /\ avg_response_time_ms = [e \in Endpoints |-> 0]
    /\ round_robin_index = 0
    /\ circuit_breaker_state =
          [e \in Endpoints |-> [failures |-> 0, last_failure |-> NoTime, state |-> "closed"]]
    /\ now = 0
    /\ recent_failures = [e \in Endpoints |-> 0]
    /\ requests_started = 0
    /\ selected = NoCall

\* LoadBalancer.select_endpoint
select_endpoint ==
    LET available == available_endpoints
        chosen == IF available = <<>> THEN NoEndpoint ELSE strategy_select(available)
    IN /\ circuit_breaker_state' = circuit_after_select
       /\ round_robin_index' =
             IF available # <<>> /\ lb_strategy = "round_robin"
             THEN (round_robin_index + 1) % RoundRobinModulus
             ELSE round_robin_index
       /\ selected' = chosen
       /\ UNCHANGED <<batchVars, cacheVars, engineVars, ttlVars, keyVars, alertVars, computeVars, waitVars, orchVars, windowVars, prioVars, fanVars>>
       /\ UNCHANGED <<lb_strategy, current_load, healthy, success_rate,
                      avg_response_time_ms, now, recent_failures, requests_started>>

\* Variant: acquire_endpoint without the capacity check.
acquire_endpoint_unchecked(e) ==
    /\ requests_started < MaxRequests
    /\ current_load' = [current_load EXCEPT ![e] = @ + 1]
    /\ requests_started' = requests_started + 1
    /\ selected' = NoCall
    /\ UNCHANGED <<batchVars, cacheVars, engineVars, ttlVars, keyVars, alertVars, computeVars, waitVars, orchVars, windowVars, prioVars, fanVars>>
    /\ UNCHANGED <<lb_strategy, healthy, success_rate, avg_response_time_ms,
                   round_robin_index, circuit_breaker_state, now, recent_failures>>

\* LoadBalancer.acquire_endpoint
acquire_endpoint(e) ==
    /\ requests_started < MaxRequests
    /\ IF current_load[e] >= max_concurrent[e]
       THEN UNCHANGED <<current_load, requests_started>>
       ELSE /\ current_load' = [current_load EXCEPT ![e] = @ + 1]
            /\ requests_started' = requests_started + 1
    /\ selected' = NoCall
    /\ UNCHANGED <<batchVars, cacheVars, engineVars, ttlVars, keyVars, alertVars, computeVars, waitVars, orchVars, windowVars, prioVars, fanVars>>
    /\ UNCHANGED <<lb_strategy, healthy, success_rate, avg_response_time_ms,
                   round_robin_index, circuit_breaker_state, now, recent_failures>>

\* LoadBalancer.release_endpoint, called by a request that holds e.
release_endpoint(e, response_time_ms, success) ==
    /\ current_load[e] > 0
    /\ success \/ e \in FailingEndpoints
    /\ current_load' = [current_load EXCEPT ![e] = Max(0, @ - 1)]
    /\ IF success
       THEN /\ avg_response_time_ms' =
                  [avg_response_time_ms EXCEPT ![e] = moving_average(@, response_time_ms)]
            /\ success_rate' = [success_rate EXCEPT ![e] = Min(100, @ + 1)]
            /\ circuit_breaker_state' =
                  [circuit_breaker_state EXCEPT ![e] = handle_endpoint_success(@)]
            /\ recent_failures' = [recent_failures EXCEPT ![e] = 0]
       ELSE /\ success_rate' = [success_rate EXCEPT ![e] = Max(0, @ - 5)]
            /\ circuit_breaker_state' =
                  [circuit_breaker_state EXCEPT ![e] = handle_endpoint_failure(@, now)]
            /\ recent_failures' =
                  [recent_failures EXCEPT ![e] = Min(circuit_breaker_threshold, @ + 1)]
            /\ UNCHANGED avg_response_time_ms
    /\ selected' = NoCall
    /\ UNCHANGED <<batchVars, cacheVars, engineVars, ttlVars, keyVars, alertVars, computeVars, waitVars, orchVars, windowVars, prioVars, fanVars>>
    /\ UNCHANGED <<lb_strategy, healthy, round_robin_index, now, requests_started>>

\* One pass of LoadBalancer._health_check_loop over all endpoints.
health_check_loop ==
    /\ healthy' = [e \in Endpoints |-> check_endpoint_health(e)]
    /\ selected' = NoCall
    /\ UNCHANGED <<batchVars, cacheVars, engineVars, ttlVars, keyVars, alertVars, computeVars, waitVars, orchVars, windowVars, prioVars, fanVars>>
    /\ UNCHANGED <<lb_strategy, current_load, success_rate, avg_response_time_ms,
                   round_robin_index, circuit_breaker_state, now, recent_failures,
                   requests_started>>

\* Time passes.
Tick ==
    /\ \E d \in TickSteps :
          /\ now + d <= MaxTime
          /\ now' = now + d
    /\ selected' = NoCall
    /\ UNCHANGED <<batchVars, cacheVars, engineVars, ttlVars, keyVars, alertVars, computeVars, waitVars, orchVars, windowVars, prioVars, fanVars>>
    /\ UNCHANGED <<lb_strategy, current_load, healthy, success_rate, avg_response_time_ms,
                   round_robin_index, circuit_breaker_state, recent_failures,
                   requests_started>>


(***************************************************************************)
(* Request batcher: configuration                                          *)
(***************************************************************************)

\* config.max_batch_size (bound of the model; 32 by default).
MaxBatchSize == 3

\* submit_request calls explored in one behaviour.
MaxSubmits == 4

Requests == 1..MaxSubmits

BatchingStrategy == {"time_based", "size_based", "adaptive", "priority_aware"}

\* Values of _generate_batch_key.
BatchKeys == {"k1", "k2"}

\* Request priorities (1 = high).
Priorities == {1, 2}

\* Time between queued_at and the clock read of _calculate_priority_score,
\* in tenths of the score unit.
ScoreAges == {0, 1}

NoKey == "none"

(***************************************************************************)
(* Request batcher: helpers                                                *)
(***************************************************************************)

\* Python slices s[:n] and s[n:].
Take(s, n) == SubSeq(s, 1, Min(n, Len(s)))

Drop(s, n) == SubSeq(s, Min(n, Len(s)) + 1, Len(s))

\* RequestBatcher._calculate_priority_score, in tenths: priority - age * 0.1
calculate_priority_score(priority, age) == priority * 10 - age

\* (score, request) tuples: a < b when the scores differ.
item_less(a, b) == a.score < b.score

\* Equal scores make the tuple comparison fall through to the two
\* PendingRequest objects, which define no order: TypeError.
incomparable(a, b) == a.score = b.score /\ a.request # b.request

swap(h, i, j) == [h EXCEPT ![i] = h[j], ![j] = h[i]]

\* heapq: sift the item at pos towards the root (positions from 1).
RECURSIVE siftdown(_, _, _)
siftdown(h, startpos, pos) ==
    IF pos > startpos
    THEN LET parentpos == pos \div 2 IN
         IF incomparable(h[pos], h[parentpos]) THEN [err |-> TRUE, heap |-> h]
         ELSE IF item_less(h[pos], h[parentpos])
         THEN siftdown(swap(h, pos, parentpos), startpos, parentpos)
         ELSE [err |-> FALSE, heap |-> h]
    ELSE [err |-> FALSE, heap |-> h]

\* heapq: move the smaller child up until a leaf is reached.
RECURSIVE siftup_walk(_, _)
siftup_walk(h, pos) ==
    LET endpos == Len(h)
        left == 2 * pos
        right == 2 * pos + 1
    IN IF left <= endpos
       THEN IF right <= endpos /\ incomparable(h[left], h[right])
            THEN [err |-> TRUE, heap |-> h, pos |-> pos]
            ELSE LET childpos == IF right <= endpos /\ ~item_less(h[left], h[right])
                                 THEN right ELSE left
                 IN siftup_walk(swap(h, pos, childpos), childpos)
       ELSE [err |-> FALSE, heap |-> h, pos |-> pos]

siftup(h, startpos) ==
    LET walked == siftup_walk(h, startpos) IN
    IF walked.err THEN [err |-> TRUE, heap |-> walked.heap]
    ELSE siftdown(walked.heap, startpos, walked.pos)

\* heapq.heappush(self.priority_queue, item)
heappush(h, item) == siftdown(Append(h, item), 1, Len(h) + 1)

\* heapq.heappop(self.priority_queue); on a TypeError the popped item is lost.
heappop(h) ==
    LET n == Len(h)
        lastelt == h[n]
        rest == SubSeq(h, 1, n - 1)
    IN IF n = 1 THEN [err |-> FALSE, heap |-> <<>>, item |-> lastelt]
       ELSE LET up == siftup([rest EXCEPT ![1] = lastelt], 1)
            IN [err |-> up.err, heap |-> up.heap, item |-> h[1]]

\* Variant: the extraction loop runs while len(requests) <= max_batch_size.
extraction_continues_inclusive(pq, requests) ==
    pq # <<>> /\ Len(requests) <= MaxBatchSize

\* The loop condition of _extract_priority_requests.
extraction_continues(pq, requests) ==
    pq # <<>> /\ Len(requests) < MaxBatchSize

\* _extract_priority_requests: push the non-matching items back.
RECURSIVE restore_remaining(_, _, _)
restore_remaining(pq, remaining, requests) ==
    IF remaining = <<>> THEN [err |-> FALSE, heap |-> pq, requests |-> requests]
    ELSE LET pushed == heappush(pq, Head(remaining)) IN
         IF pushed.err THEN [err |-> TRUE, heap |-> pushed.heap, requests |-> <<>>]
         ELSE restore_remaining(pushed.heap, Tail(remaining), requests)

\* _extract_priority_requests: the pop loop, then the restore loop.
RECURSIVE extract_priority_requests(_, _, _, _)
extract_priority_requests(pq, batch_key, requests, remaining) ==
    IF extraction_continues(pq, requests)
    THEN LET popped == heappop(pq) IN
         IF popped.err THEN [err |-> TRUE, heap |-> popped.heap, requests |-> <<>>]
         ELSE IF request_key[popped.item.request] = batch_key
         THEN extract_priority_requests(popped.heap, batch_key,
                                        Append(requests, popped.item.request), remaining)
         ELSE extract_priority_requests(popped.heap, batch_key, requests,
                                        Append(remaining, popped.item))
    ELSE restore_remaining(pq, remaining, requests)

\* _trigger_batch, inside the lock: the requests taken and what is left.
trigger_batch(batch_key) ==
    IF batch_strategy = "priority_aware"
    THEN LET extracted == extract_priority_requests(priority_queue, batch_key, <<>>, <<>>)
         IN [err |-> extracted.err,
             requests |-> extracted.requests,
             queues |-> request_queues,
             heap |-> extracted.heap]
    ELSE [err |-> FALSE,
          requests |-> Take(request_queues[batch_key], MaxBatchSize),
          queues |-> [request_queues EXCEPT ![batch_key] = Drop(@, MaxBatchSize)],
          heap |-> priority_queue]

\* _process_batch: set_result on every future that is not cancelled; a
\* future that is already done raises InvalidStateError.
RECURSIVE set_results(_, _)
set_results(fs, requests) ==
    IF requests = <<>> THEN [err |-> FALSE, futures |-> fs]
    ELSE LET r == Head(requests) IN
         IF fs[r] = "cancelled" THEN set_results(fs, Tail(requests))
         ELSE IF fs[r] = "pending"
         THEN set_results([fs EXCEPT ![r] = "result"], Tail(requests))
         ELSE [err |-> TRUE, futures |-> fs]

\* _process_batch, except branch: set_exception on every future that is not
\* cancelled, stopping at the first that is already done.
RECURSIVE set_exceptions(_, _)
set_exceptions(fs, requests) ==
    IF requests = <<>> THEN fs
    ELSE LET r == Head(requests) IN
         IF fs[r] = "cancelled" THEN set_exceptions(fs, Tail(requests))
         ELSE IF fs[r] = "pending"
         THEN set_exceptions([fs EXCEPT ![r] = "exception"], Tail(requests))
         ELSE fs

(***************************************************************************)
(* Request batcher: state machine                                          *)
(***************************************************************************)

\* RequestBatcher(config)
BatchInit ==
    /\ batch_strategy \in BatchingStrategy
    /\ request_queues = [k \in BatchKeys |-> <<>>]
    /\ batch_timers = [k \in BatchKeys |-> "none"]
    /\ queue_lock = "free"
    /\ priority_queue = <<>>
    /\ submit_state = [r \in Requests |-> "new"]
    /\ request_key = [r \in Requests |-> NoKey]
    /\ future_state = [r \in Requests |-> "none"]
    /\ batches = <<>>
    /\ processed = {}

\* The next request id: requests are numbered in submission order.
next_request == Cardinality({r \in Requests : submit_state[r] # "new"}) + 1

\* RequestBatcher.submit_request.  asyncio.Lock is not reentrant, so the
\* call that reaches max_batch_size waits in _trigger_batch for the lock it
\* holds itself; every later call waits for that lock at `async with`.
submit_request_batcher(batch_key, priority, age) ==
    LET r == next_request IN
    /\ r \in Requests
    /\ request_key' = [request_key EXCEPT ![r] = batch_key]
    /\ future_state' = [future_state EXCEPT ![r] = "pending"]
    /\ IF queue_lock # "free"
       THEN /\ submit_state' = [submit_state EXCEPT ![r] = "waiting_for_lock"]
            /\ UNCHANGED <<request_queues, batch_timers, queue_lock, priority_queue>>
       ELSE IF batch_strategy = "priority_aware"
       THEN LET pushed == heappush(priority_queue,
                                   [score |-> calculate_priority_score(priority, age),
                                    request |-> r])
            IN /\ priority_queue' = pushed.heap
               /\ submit_state' =
                     [submit_state EXCEPT ![r] = IF pushed.err THEN "raised" ELSE "returned"]
               /\ UNCHANGED <<request_queues, batch_timers, queue_lock>>
       ELSE LET queue == Append(request_queues[batch_key], r) IN
            /\ request_queues' = [request_queues EXCEPT ![batch_key] = queue]
            /\ IF Len(queue) >= MaxBatchSize
               THEN /\ queue_lock' = "held"
                    /\ submit_state' = [submit_state EXCEPT ![r] = "deadlocked"]
                    /\ UNCHANGED batch_timers
               ELSE /\ batch_timers' =
                          [batch_timers EXCEPT ![batch_key] =
                              IF @ = "none" THEN "sleeping" ELSE @]
                    /\ submit_state' = [submit_state EXCEPT ![r] = "returned"]
                    /\ UNCHANGED queue_lock
            /\ UNCHANGED priority_queue
    /\ UNCHANGED <<batch_strategy, batches, processed>>

\* submit_request as a step of the whole system.
submit_request(batch_key, priority, age) ==
    /\ submit_request_batcher(batch_key, priority, age)
    /\ UNCHANGED <<lbVars, cacheVars, engineVars, ttlVars, keyVars, alertVars, computeVars, waitVars, orchVars, windowVars, prioVars, fanVars>>

\* RequestBatcher._batch_timer: the sleep ends and _trigger_batch runs, or
\* waits for the lock when a submit_request call holds it.
batch_timer(batch_key) ==
    /\ batch_timers[batch_key] = "sleeping"
    /\ IF queue_lock # "free"
       THEN /\ batch_timers' = [batch_timers EXCEPT ![batch_key] = "waiting_for_lock"]
            /\ UNCHANGED <<request_queues, priority_queue, batches>>
       ELSE LET taken == trigger_batch(batch_key) IN
            /\ batch_timers' = [batch_timers EXCEPT ![batch_key] = "none"]
            /\ request_queues' = taken.queues
            /\ priority_queue' = taken.heap
            /\ batches' =
                  IF taken.err \/ taken.requests = <<>> THEN batches
                  ELSE Append(batches, [key |-> batch_key, requests |-> taken.requests,
                                        trigger |-> "timer"])
    /\ UNCHANGED <<batch_strategy, queue_lock, submit_state, request_key, future_state,
                   processed>>
    /\ UNCHANGED <<lbVars, cacheVars, engineVars, ttlVars, keyVars, alertVars, computeVars, waitVars, orchVars, windowVars, prioVars, fanVars>>

\* A direct call of _trigger_batch in PRIORITY_AWARE mode.  In that mode
\* request_queues stays empty, so _maybe_trigger_batch neither flushes nor
\* starts a timer: a call from outside is the only consumer of the heap.
flush_priority(batch_key) ==
    /\ batch_strategy = "priority_aware"
    /\ queue_lock = "free"
    /\ priority_queue # <<>>
    /\ LET taken == trigger_batch(batch_key) IN
       /\ request_queues' = taken.queues
       /\ priority_queue' = taken.heap
       /\ batches' =
             IF taken.err \/ taken.requests = <<>> THEN batches
             ELSE Append(batches, [key |-> batch_key, requests |-> taken.requests,
                                   trigger |-> "call"])
    /\ UNCHANGED <<batch_strategy, batch_timers, queue_lock, submit_state, request_key,
                   future_state, processed>>
    /\ UNCHANGED <<lbVars, cacheVars, engineVars, ttlVars, keyVars, alertVars, computeVars, waitVars, orchVars, windowVars, prioVars, fanVars>>

\* RequestBatcher._process_batch for the i-th batch handed over.
process_batch(i) ==
    /\ i \in 1..Len(batches)
    /\ i \notin processed
    /\ LET done == set_results(future_state, batches[i].requests) IN
       future_state' = IF done.err THEN set_exceptions(done.futures, batches[i].requests)
                       ELSE done.futures
    /\ processed' = processed \cup {i}
    /\ UNCHANGED <<batch_strategy, request_queues, batch_timers, queue_lock,
                   priority_queue, submit_state, request_key, batches>>
    /\ UNCHANGED <<lbVars, cacheVars, engineVars, ttlVars, keyVars, alertVars, computeVars, waitVars, orchVars, windowVars, prioVars, fanVars>>

(***************************************************************************)
(* Inference cache: coalesced batch execution                              *)
(***************************************************************************)

\* Callers of get_or_batch_compute explored in one behaviour.
MaxCallers == 3

Callers == 1..MaxCallers

\* Values of _get_batch_key (operation + batchable pattern).
CachePatterns == {"p"}

\* A future: its state, the index of the result it was given, the
\* exception it was given.
NoFuture == [state |-> "none", value |-> 0, exc |-> "none"]

\* The exceptions a caller's future can carry.
CacheExceptions == {"compute_error", "invalid_state_error"}

\* The position of caller c in a request list.
PositionOf(c, list) == CHOOSE j \in 1..Len(list) : list[j] = c

\* _execute_batch, lines 317-320: the futures that are not cancelled.
not_cancelled(cf, pending) == SelectSeq(pending, LAMBDA c : cf[c].state # "cancelled")

\* The fan-out loop of _execute_batch: the first index from i on whose
\* future is to be completed (i < len(results) and not cancelled), or 0.
RECURSIVE next_fanout(_, _, _, _)
next_fanout(cf, futures, results, i) ==
    IF i > Len(futures) THEN 0
    ELSE IF i <= results /\ cf[futures[i]].state # "cancelled" THEN i
    ELSE next_fanout(cf, futures, results, i + 1)

\* The except branch of _execute_batch: set_exception on every future of
\* pending that is not cancelled; set_exception on a future that already
\* has a result raises InvalidStateError out of the handler.
RECURSIVE set_exception_all(_, _, _)
set_exception_all(cf, pending, exc) ==
    IF pending = <<>> THEN [crashed |-> FALSE, futures |-> cf]
    ELSE LET c == Head(pending) IN
         IF cf[c].state = "cancelled" THEN set_exception_all(cf, Tail(pending), exc)
         ELSE IF cf[c].state = "pending"
         THEN set_exception_all([cf EXCEPT ![c] = [state |-> "exception", value |-> 0, exc |-> exc]],
                                Tail(pending), exc)
         ELSE [crashed |-> TRUE, futures |-> cf]

\* InferenceCache(redis_client)
CacheInit ==
    /\ pending_requests = [k \in CachePatterns |-> [present |-> FALSE, list |-> <<>>]]
    /\ caller_future = [c \in Callers |-> NoFuture]
    /\ batch_tasks = <<>>
    /\ cached = {}

\* Variant: every caller schedules an _execute_batch task, whether or not
\* the batch key is pending.
get_or_batch_compute_always_schedules(c, batch_key) ==
    /\ caller_future[c].state = "none"
    /\ caller_future' = [caller_future EXCEPT ![c] = [NoFuture EXCEPT !.state = "pending"]]
    /\ pending_requests' =
          [pending_requests EXCEPT ![batch_key] =
              [present |-> TRUE, list |-> Append(pending_requests[batch_key].list, c)]]
    /\ batch_tasks' = Append(batch_tasks,
          [key |-> batch_key, pc |-> "sleeping", pending |-> <<>>,
           futures |-> <<>>, results |-> 0, i |-> 0])
    /\ UNCHANGED cached
    /\ UNCHANGED <<lbVars, batchVars, engineVars, ttlVars, keyVars, alertVars, computeVars, waitVars, orchVars, windowVars, prioVars, fanVars>>

\* get_or_batch_compute on a cache miss of a batch-compatible operation: the
\* first caller of a batch key schedules _execute_batch, every caller appends
\* its future and waits for it.
get_or_batch_compute(c, batch_key) ==
    /\ caller_future[c].state = "none"
    /\ caller_future' = [caller_future EXCEPT ![c] = [NoFuture EXCEPT !.state = "pending"]]
    /\ IF ~pending_requests[batch_key].present
       THEN /\ pending_requests' =
                  [pending_requests EXCEPT ![batch_key] = [present |-> TRUE, list |-> <<c>>]]
            /\ batch_tasks' = Append(batch_tasks,
                  [key |-> batch_key, pc |-> "sleeping", pending |-> <<>>,
                   futures |-> <<>>, results |-> 0, i |-> 0])
       ELSE /\ pending_requests' =
                  [pending_requests EXCEPT ![batch_key].list = Append(@, c)]
            /\ UNCHANGED batch_tasks
    /\ UNCHANGED cached
    /\ UNCHANGED <<lbVars, batchVars, engineVars, ttlVars, keyVars, alertVars, computeVars, waitVars, orchVars, windowVars, prioVars, fanVars>>

\* _execute_batch, lines 303-331: the batch window ends, the pending list is
\* popped and compute_func is called with the requests that are not cancelled.
execute_batch(t) ==
    /\ t \in 1..Len(batch_tasks)
    /\ batch_tasks[t].pc = "sleeping"
    /\ LET key == batch_tasks[t].key
           pending == pending_requests[key].list
           futures == not_cancelled(caller_future, pending)
       IN IF ~pending_requests[key].present
          THEN /\ batch_tasks' = [batch_tasks EXCEPT ![t].pc = "done"]
               /\ UNCHANGED pending_requests
          ELSE /\ pending_requests' =
                     [pending_requests EXCEPT ![key] = [present |-> FALSE, list |-> <<>>]]
               /\ batch_tasks' =
                     [batch_tasks EXCEPT ![t] =
                         [@ EXCEPT !.pc = IF futures = <<>> THEN "done" ELSE "computing",
                                   !.pending = pending,
                                   !.futures = futures]]
    /\ UNCHANGED <<caller_future, cached>>
    /\ UNCHANGED <<lbVars, batchVars, engineVars, ttlVars, keyVars, alertVars, computeVars, waitVars, orchVars, windowVars, prioVars, fanVars>>

\* compute_func returns a list of n results (fewer than, as many as, or one
\* more than the requests); the fan-out loop runs up to its first
\* `await self.cache_result(...)`.
compute_returns(t, n) ==
    /\ t \in 1..Len(batch_tasks)
    /\ batch_tasks[t].pc = "computing"
    /\ n <= Len(batch_tasks[t].futures) + 1
    /\ LET i == next_fanout(caller_future, batch_tasks[t].futures, n, 1) IN
       batch_tasks' =
          [batch_tasks EXCEPT ![t] =
              [@ EXCEPT !.results = n, !.i = i, !.pc = IF i = 0 THEN "done" ELSE "caching"]]
    /\ UNCHANGED <<pending_requests, caller_future, cached>>
    /\ UNCHANGED <<lbVars, batchVars, engineVars, ttlVars, keyVars, alertVars, computeVars, waitVars, orchVars, windowVars, prioVars, fanVars>>

\* compute_func raises: the except branch sets the exception on the futures.
compute_raises(t) ==
    /\ t \in 1..Len(batch_tasks)
    /\ batch_tasks[t].pc = "computing"
    /\ LET handled == set_exception_all(caller_future, batch_tasks[t].pending, "compute_error")
       IN /\ caller_future' = handled.futures
          /\ batch_tasks' =
                [batch_tasks EXCEPT ![t].pc = IF handled.crashed THEN "failed" ELSE "done"]
    /\ UNCHANGED <<pending_requests, cached>>
    /\ UNCHANGED <<lbVars, batchVars, engineVars, ttlVars, keyVars, alertVars, computeVars, waitVars, orchVars, windowVars, prioVars, fanVars>>

\* `await self.cache_result(...)` returns (stored or not) for the i-th
\* request, then future.set_result(result); set_result on a future cancelled
\* during the await raises InvalidStateError into the except branch.
cache_result_returns(t, stored) ==
    /\ t \in 1..Len(batch_tasks)
    /\ batch_tasks[t].pc = "caching"
    /\ LET task == batch_tasks[t]
           c == task.futures[task.i]
       IN /\ cached' = IF stored THEN cached \cup {c} ELSE cached
          /\ IF caller_future[c].state = "pending"
             THEN LET completed ==
                          [caller_future EXCEPT ![c] =
                              [state |-> "result", value |-> task.i, exc |-> "none"]]
                      i == next_fanout(completed, task.futures, task.results, task.i + 1)
                  IN /\ caller_future' = completed
                     /\ batch_tasks' =
                           [batch_tasks EXCEPT ![t] =
                               [@ EXCEPT !.i = i, !.pc = IF i = 0 THEN "done" ELSE "caching"]]
             ELSE LET handled ==
                          set_exception_all(caller_future, task.pending, "invalid_state_error")
                  IN /\ caller_future' = handled.futures
                     /\ batch_tasks' =
                           [batch_tasks EXCEPT ![t].pc =
                               IF handled.crashed THEN "failed" ELSE "done"]
    /\ UNCHANGED pending_requests
    /\ UNCHANGED <<lbVars, batchVars, engineVars, ttlVars, keyVars, alertVars, computeVars, waitVars, orchVars, windowVars, prioVars, fanVars>>

\* The task awaiting get_or_batch_compute is cancelled, which cancels the
\* future it waits on.
cancel_caller(c) ==
    /\ caller_future[c].state = "pending"
    /\ caller_future' = [caller_future EXCEPT ![c] = [NoFuture EXCEPT !.state = "cancelled"]]
    /\ UNCHANGED <<pending_requests, batch_tasks, cached>>
    /\ UNCHANGED <<lbVars, batchVars, engineVars, ttlVars, keyVars, alertVars, computeVars, waitVars, orchVars, windowVars, prioVars, fanVars>>

(***************************************************************************)
(* Engine: configuration                                                   *)
(***************************************************************************)

\* process_request calls explored in one behaviour.
MaxEngineRequests == 2

EngineRequests == 1..MaxEngineRequests

\* The operations explored; the requests of a behaviour have the same
\* operation, payload and flags, so they differ by user only.
EngineOperations == {"budget_optimization", "portfolio_analysis", "goal_planning"}

EngineUsers == {"u1", "u2"}

\* InferenceCache.cache_configs[operation].strategy
cache_strategy(operation) ==
    CASE operation = "budget_optimization" -> "dependency"
      [] operation = "portfolio_analysis" -> "event"
      [] operation = "debt_strategy" -> "ttl"
      [] operation = "market_intelligence" -> "adaptive"
      [] operation = "goal_planning" -> "dependency"
      [] operation = "financial_analysis" -> "adaptive"
      [] OTHER -> "ttl"

\* InferenceCache.cache_configs[operation].batch_compatible
batch_compatible(operation) ==
    operation \in {"budget_optimization", "portfolio_analysis", "market_intelligence",
                   "financial_analysis"}

\* dependency_patterns of _setup_cache_dependencies: the tags of an
\* operation and user, in the order they are registered.
dependency_patterns(operation, user_id) ==
    CASE operation = "budget_optimization" ->
            << <<"user_budget", user_id>>, <<"user_transactions", user_id>> >>
      [] operation = "portfolio_analysis" ->
            << <<"user_portfolio", user_id>>, <<"market_data", "*">> >>
      [] operation = "financial_analysis" ->
            << <<"user_data", user_id>>, <<"user_accounts", user_id>> >>
      [] operation = "goal_planning" ->
            << <<"user_goals", user_id>>, <<"user_progress", user_id>> >>
      [] OTHER -> << >>

\* Every tag an explored request can have.
Tags ==
    UNION {{dependency_patterns(o, u)[i] : i \in 1..Len(dependency_patterns(o, u))} :
           o \in EngineOperations, u \in EngineUsers}

\* complexity_delays of _execute_model_inference, in milliseconds.
complexity_delay_ms(operation) ==
    CASE operation = "budget_optimization" -> 150
      [] operation = "portfolio_analysis" -> 200
      [] operation = "goal_planning" -> 180
      [] OTHER -> 150

\* Where a store command of cache_result fails, if any: the SETEX, the first
\* SADD/EXPIRE pair or the second.
WriteFailures == {"none", "setex", "first_tag", "second_tag"}

\* What compute_batch returns for one request: an inference result or the
\* error result of lines 329-333.
ComputeOutcomes == {"ok", "error"}

\* No store entry / get_cached_result returning None.
NoEntry == "absent"

NoResponse ==
    [success |-> FALSE, data |-> "none", cache_hit |-> FALSE, error |-> "none",
     processing_time_ms |-> 0, queue_time_ms |-> 0, backend_used |-> "none"]

NoRequest ==
    [pc |-> "new", user_id |-> "none", cache_enabled |-> FALSE, batch_enabled |-> FALSE,
     timed_out |-> FALSE, repeat |-> FALSE, store_error |-> FALSE, batch |-> 0,
     behind |-> "none", response |-> NoResponse]

NoInvalidation == [pc |-> "idle", tag |-> <<"none", "none">>, dep_keys |-> {}]

(***************************************************************************)
(* Engine: cache store operations                                          *)
(***************************************************************************)

\* InferenceCache.get_cached_result: the stored result, or None on a miss
\* and on a store error (except branch, lines 167-170).
get_cached_result(user_id, read_ok) == IF read_ok THEN store[user_id] ELSE NoEntry

\* _setup_cache_dependencies: SADD the key to each tag set in order, up to a
\* failing store command.
setup_cache_dependencies(tags, operation, user_id, fail_at) ==
    LET deps == dependency_patterns(operation, user_id)
        n == IF fail_at = "first_tag" THEN 0
             ELSE IF fail_at = "second_tag" THEN 1 ELSE Len(deps)
    IN [t \in Tags |->
           IF \E i \in 1..Min(n, Len(deps)) : deps[i] = t
           THEN tags[t] \cup {user_id} ELSE tags[t]]

\* cache_result, line 199: the strategies whose keys are registered.
registers_dependencies(operation) == cache_strategy(operation) = "dependency"

\* The store commands of cache_result that can fail for an operation: the
\* SADD/EXPIRE pairs are issued for a registered operation only.
write_failures(operation) ==
    IF registers_dependencies(operation) THEN WriteFailures ELSE {"none", "setex"}

\* InferenceCache.cache_result: SETEX the result, then register the
\* dependencies; any store error ends the call with False.
cache_result(st, tags, operation, user_id, result, fail_at) ==
    IF fail_at = "setex" THEN [ok |-> FALSE, store |-> st, tag_members |-> tags]
    ELSE IF registers_dependencies(operation)
    THEN [ok |-> fail_at = "none",
          store |-> [st EXCEPT ![user_id] = result],
          tag_members |-> setup_cache_dependencies(tags, operation, user_id, fail_at)]
    ELSE [ok |-> TRUE, store |-> [st EXCEPT ![user_id] = result], tag_members |-> tags]

\* The response built on a cache hit (lines 414-427): no stored result has a
\* "data" field, so data is the default {}.
cache_hit_response ==
    [success |-> TRUE, data |-> "empty", cache_hit |-> TRUE, error |-> "none",
     processing_time_ms |-> 0, queue_time_ms |-> 0, backend_used |-> "cache"]

\* InferenceCache.batch_window_ms / batch_timeout_ms=50 of process_request.
batch_window_ms == 50

\* processing_time_ms of a result dict: the inference delay, 0 in an error
\* result (line 332).
processing_time_ms_of(result, operation) ==
    IF result = "ok" THEN complexity_delay_ms(operation) ELSE 0

\* The response built from a result dict (lines 467-482): success is
\* `not result.get("error")`, data is the whole dict; waited_ms is the
\* least time that can have passed since queue_start_time.
miss_response(result, operation, waited_ms) ==
    [success |-> result # "error",
     data |-> "result",
     cache_hit |-> FALSE,
     error |-> IF result = "error" THEN "message" ELSE "none",
     processing_time_ms |-> processing_time_ms_of(result, operation),
     queue_time_ms |-> waited_ms,
     backend_used |-> "unknown"]

\* Variant: a result whose cache write failed is replaced by an error.
set_result_only_if_cached(result, written_ok) == IF written_ok THEN result ELSE "error"

\* get_or_batch_compute line 280-281 and _execute_batch lines 338-344: the
\* return value of cache_result is ignored and the caller receives the
\* computed result.
set_result(result, written_ok) == result

\* process_request returns: the request's record once it is answered.
answered(request, response, behind) ==
    [request EXCEPT !.pc = "responded", !.response = response, !.behind = behind]

\* The fan-out of _execute_batch (lines 334-344) over the popped requests:
\* cache_result for the i-th result, then set_result on the i-th future.
RECURSIVE fan_out(_, _, _, _, _, _)
fan_out(st, tags, requests, results, fails, i) ==
    IF i > Len(requests) THEN [store |-> st, tag_members |-> tags]
    ELSE LET written == cache_result(st, tags, engine_operation,
                                     engine_request[requests[i]].user_id,
                                     results[i], fails[i])
         IN fan_out(written.store, written.tag_members, requests, results, fails, i + 1)

\* The users whose key of the operation is covered by a tag.
users_under(tag) ==
    {u \in EngineUsers : tag \in Range(dependency_patterns(engine_operation, u))}

(***************************************************************************)
(* Engine: state machine                                                   *)
(***************************************************************************)

\* OptimizedAIEngine(redis_client, config) over an empty store.
EngineInit ==
    /\ engine_operation \in EngineOperations
    /\ store = [u \in EngineUsers |-> NoEntry]
    /\ tag_members = [t \in Tags |-> {}]
    /\ engine_request = [r \in EngineRequests |-> NoRequest]
    /\ engine_pending = << >>
    /\ invalidation = NoInvalidation
    /\ engine_fresh = {}

\* process_request, lines 388-435: the cache lookup of step 1 and, on a
\* hit, the response.  Requests are numbered in submission order.
process_request(r, user_id, cache_enabled, batch_enabled, read_ok) ==
    /\ r \in EngineRequests
    /\ engine_request[r].pc = "new"
    /\ \A q \in 1..(r - 1) :
          /\ engine_request[q].pc # "new"
          /\ engine_request[q].cache_enabled = cache_enabled
          /\ engine_request[q].batch_enabled = batch_enabled
    /\ LET cached_result == IF cache_enabled THEN get_cached_result(user_id, read_ok) ELSE NoEntry
           request == [NoRequest EXCEPT
                          !.user_id = user_id,
                          !.cache_enabled = cache_enabled,
                          !.batch_enabled = batch_enabled,
                          !.repeat = user_id \in engine_fresh,
                          !.store_error = cache_enabled /\ ~read_ok]
       IN IF cached_result # NoEntry
          THEN /\ engine_request' =
                     [engine_request EXCEPT ![r] = answered(request, cache_hit_response, cached_result)]
               /\ engine_fresh' = engine_fresh \cup {user_id}
          ELSE /\ engine_request' = [engine_request EXCEPT ![r] = [request EXCEPT !.pc = "miss"]]
               /\ UNCHANGED engine_fresh
    /\ UNCHANGED <<engine_operation, store, tag_members, engine_pending, invalidation>>
    /\ UNCHANGED <<lbVars, batchVars, cacheVars, ttlVars, keyVars, alertVars, computeVars, waitVars, orchVars, windowVars, prioVars, fanVars>>

\* process_request, lines 445-453, into get_or_batch_compute, lines 271-299:
\* the second cache lookup, then the unbatched compute or the pending list.
engine_get_or_batch_compute(r, read_ok) ==
    /\ r \in EngineRequests
    /\ engine_request[r].pc = "miss"
    /\ engine_request[r].batch_enabled
    /\ LET cached_result == get_cached_result(engine_request[r].user_id, read_ok) IN
       IF cached_result # NoEntry
       THEN /\ engine_request' =
                  [engine_request EXCEPT ![r] =
                      answered(@, miss_response(cached_result, engine_operation, 0), cached_result)]
            /\ engine_fresh' = engine_fresh \cup {engine_request[r].user_id}
            /\ UNCHANGED engine_pending
       ELSE IF ~batch_compatible(engine_operation)
       THEN /\ engine_request' =
                  [engine_request EXCEPT ![r].pc = "computing",
                                         ![r].store_error = @ \/ ~read_ok]
            /\ UNCHANGED <<engine_pending, engine_fresh>>
       ELSE /\ engine_request' =
                  [engine_request EXCEPT ![r].pc = "waiting",
                                         ![r].store_error = @ \/ ~read_ok]
            /\ engine_pending' = Append(engine_pending, r)
            /\ UNCHANGED engine_fresh
    /\ UNCHANGED <<engine_operation, store, tag_members, invalidation>>
    /\ UNCHANGED <<lbVars, batchVars, cacheVars, ttlVars, keyVars, alertVars, computeVars, waitVars, orchVars, windowVars, prioVars, fanVars>>

\* get_or_batch_compute, lines 277-281, for an operation that is not batch
\* compatible: compute_func for the one request, cache_result, return.
compute_unbatched(r, outcome, fail_at) ==
    /\ r \in EngineRequests
    /\ engine_request[r].pc = "computing"
    /\ LET written == cache_result(store, tag_members, engine_operation,
                                   engine_request[r].user_id, outcome, fail_at)
       IN /\ store' = written.store
          /\ tag_members' = written.tag_members
    /\ LET written_ok == cache_result(store, tag_members, engine_operation,
                                      engine_request[r].user_id, outcome, fail_at).ok
           result == set_result(outcome, written_ok)
       IN engine_request' =
             [engine_request EXCEPT ![r] =
                 answered([@ EXCEPT !.batch = r, !.store_error = @ \/ ~written_ok],
                          miss_response(result, engine_operation,
                                        processing_time_ms_of(result, engine_operation)),
                          outcome)]
    /\ engine_fresh' = engine_fresh \cup {engine_request[r].user_id}
    /\ UNCHANGED <<engine_operation, engine_pending, invalidation>>
    /\ UNCHANGED <<lbVars, batchVars, cacheVars, ttlVars, keyVars, alertVars, computeVars, waitVars, orchVars, windowVars, prioVars, fanVars>>

\* process_request, lines 454-461 (batch_enabled is false): compute_func
\* for the one request; the result is not written to the cache.
process_immediately(r, outcome) ==
    /\ r \in EngineRequests
    /\ engine_request[r].pc = "miss"
    /\ ~engine_request[r].batch_enabled
    /\ engine_request' =
          [engine_request EXCEPT ![r] =
              answered([@ EXCEPT !.batch = r],
                       miss_response(outcome, engine_operation,
                                     processing_time_ms_of(outcome, engine_operation)),
                       outcome)]
    /\ engine_fresh' = engine_fresh \cup {engine_request[r].user_id}
    /\ UNCHANGED <<engine_operation, store, tag_members, engine_pending, invalidation>>
    /\ UNCHANGED <<lbVars, batchVars, cacheVars, ttlVars, keyVars, alertVars, computeVars, waitVars, orchVars, windowVars, prioVars, fanVars>>

\* _execute_batch for the operation's batch key: the batch window ends, the
\* pending list is popped, compute_batch returns one result per request
\* (an error result for a request whose backend call failed), and every
\* result is passed to cache_result and set on its caller's future.
engine_execute_batch(results, fails) ==
    /\ engine_pending # << >>
    /\ DOMAIN results = 1..Len(engine_pending)
    /\ DOMAIN fails = 1..Len(engine_pending)
    /\ LET requests == engine_pending
           written == fan_out(store, tag_members, requests, results, fails, 1)
       IN /\ store' = written.store
          /\ tag_members' = written.tag_members
          /\ engine_request' =
                [r \in EngineRequests |->
                    IF r \in Range(requests)
                    THEN LET i == PositionOf(r, requests)
                             written_ok ==
                                 cache_result(store, tag_members, engine_operation,
                                              engine_request[r].user_id, results[i],
                                              fails[i]).ok
                             result == set_result(results[i], written_ok)
                         IN answered([engine_request[r] EXCEPT
                                         !.batch = Head(requests),
                                         !.store_error = @ \/ ~written_ok],
                                     miss_response(result, engine_operation, batch_window_ms),
                                     results[i])
                    ELSE engine_request[r]]
          /\ engine_fresh' =
                engine_fresh \cup {engine_request[r].user_id : r \in Range(requests)}
    /\ engine_pending' = << >>
    /\ UNCHANGED <<engine_operation, invalidation>>
    /\ UNCHANGED <<lbVars, batchVars, cacheVars, ttlVars, keyVars, alertVars, computeVars, waitVars, orchVars, windowVars, prioVars, fanVars>>

\* OptimizedAIRequest.timeout_ms runs out while the request is unanswered.
\* No code reads timeout_ms, so nothing else changes.
timeout_elapses(r) ==
    /\ r \in EngineRequests
    /\ engine_request[r].pc \in {"miss", "computing", "waiting"}
    /\ ~engine_request[r].timed_out
    /\ engine_request' = [engine_request EXCEPT ![r].timed_out = TRUE]
    /\ UNCHANGED <<engine_operation, store, tag_members, engine_pending, invalidation, engine_fresh>>
    /\ UNCHANGED <<lbVars, batchVars, cacheVars, ttlVars, keyVars, alertVars, computeVars, waitVars, orchVars, windowVars, prioVars, fanVars>>

\* The TTL given to SETEX runs out: the store drops the entry.  The key
\* stays a member of its tag sets.
ttl_expires(user_id) ==
    /\ store[user_id] # NoEntry
    /\ store' = [store EXCEPT ![user_id] = NoEntry]
    /\ engine_fresh' = engine_fresh \ {user_id}
    /\ UNCHANGED <<engine_operation, tag_members, engine_request, engine_pending,
                   invalidation>>
    /\ UNCHANGED <<lbVars, batchVars, cacheVars, ttlVars, keyVars, alertVars, computeVars, waitVars, orchVars, windowVars, prioVars, fanVars>>

\* invalidate_by_pattern, line 422: SMEMBERS of the tag set.  With no
\* member (or a store error, caught and logged at lines 432-433) the call
\* returns at once.
invalidate_by_pattern(tag, smembers_ok) ==
    /\ invalidation.pc = "idle"
    /\ tag \in Tags
    /\ LET dep_keys == IF smembers_ok THEN tag_members[tag] ELSE {} IN
       invalidation' =
          IF dep_keys = {} THEN NoInvalidation
          ELSE [pc |-> "delete_entries", tag |-> tag, dep_keys |-> dep_keys]
    /\ engine_fresh' = engine_fresh \ users_under(tag)
    /\ UNCHANGED <<engine_operation, store, tag_members, engine_request, engine_pending>>
    /\ UNCHANGED <<lbVars, batchVars, cacheVars, ttlVars, keyVars, alertVars, computeVars, waitVars, orchVars, windowVars, prioVars, fanVars>>

\* invalidate_by_pattern, line 426: DELETE of the member keys; a store error
\* ends the call.
invalidate_delete_entries(delete_ok) ==
    /\ invalidation.pc = "delete_entries"
    /\ IF delete_ok
       THEN /\ store' = [u \in EngineUsers |->
                            IF u \in invalidation.dep_keys THEN NoEntry ELSE store[u]]
            /\ invalidation' = [invalidation EXCEPT !.pc = "delete_tag"]
       ELSE /\ invalidation' = NoInvalidation
            /\ UNCHANGED store
    /\ UNCHANGED <<engine_operation, tag_members, engine_request, engine_pending,
                   engine_fresh>>
    /\ UNCHANGED <<lbVars, batchVars, cacheVars, ttlVars, keyVars, alertVars, computeVars, waitVars, orchVars, windowVars, prioVars, fanVars>>

\* invalidate_by_pattern, line 428: DELETE of the tag set; the call returns.
invalidate_delete_tag(delete_ok) ==
    /\ invalidation.pc = "delete_tag"
    /\ tag_members' =
          IF delete_ok THEN [tag_members EXCEPT ![invalidation.tag] = {}] ELSE tag_members
    /\ invalidation' = NoInvalidation
    /\ UNCHANGED <<engine_operation, store, engine_request, engine_pending, engine_fresh>>
    /\ UNCHANGED <<lbVars, batchVars, cacheVars, ttlVars, keyVars, alertVars, computeVars, waitVars, orchVars, windowVars, prioVars, fanVars>>

(***************************************************************************)
(* Inference cache: adaptive TTL                                           *)
(***************************************************************************)

\* Base TTLs explored: 0, 60, ..., 60 * MaxTTLSteps seconds (the configured
\* 60, 300, 600, 900, 1800, 3600 and 7200 among them).
MaxTTLSteps == 150

BaseTTLs == {60 * k : k \in 0..MaxTTLSteps}

\* Operations passed to cache_result: the configured ones and one that has
\* no entry in cache_configs or volatility_factors.
TTLOperations ==
    {"budget_optimization", "portfolio_analysis", "debt_strategy", "market_intelligence",
     "goal_planning", "financial_analysis", "unknown_operation"}

\* A result dict with no 'confidence' key.
NoConfidence == -1

\* Confidence of a result in hundredths, or none in the result dict.
Confidences == {NoConfidence, 0, 50, 69, 70, 71, 85, 89, 90, 91, 100}

\* result.get('confidence', 0.5), in hundredths.
confidence_of(confidence) == IF confidence = NoConfidence THEN 50 ELSE confidence

\* volatility_factors.get(operation, 1.0), in tenths.
volatility_factor(operation) ==
    CASE operation = "market_intelligence" -> 3
      [] operation = "portfolio_analysis" -> 6
      [] operation = "budget_optimization" -> 8
      [] operation = "debt_strategy" -> 10
      [] operation = "goal_planning" -> 12
      [] OTHER -> 10

\* Variant: only the upper bound is enforced.
clamp_ttl_upper_only(ttl) == Min(ttl, 7200)

\* max(60, min(ttl, 7200))
clamp_ttl(ttl) == Max(60, Min(ttl, 7200))

\* The ttl before the clamp: int(ttl * 1.5) or int(ttl * 0.5) by confidence,
\* then int(ttl * volatility); int() truncates.
scaled_ttl(operation, confidence, ttl) ==
    LET c == confidence_of(confidence)
        by_confidence == IF c > 90 THEN (ttl * 3) \div 2
                         ELSE IF c < 70 THEN ttl \div 2
                         ELSE ttl
    IN (by_confidence * volatility_factor(operation)) \div 10

\* InferenceCache._calculate_adaptive_ttl
calculate_adaptive_ttl(operation, confidence, ttl) ==
    clamp_ttl(scaled_ttl(operation, confidence, ttl))

\* A cache_result call about to compute its TTL.
TTLInit ==
    /\ ttl_operation \in TTLOperations
    /\ ttl_confidence \in Confidences
    /\ base_ttl \in BaseTTLs
    /\ setex_ttl = 0

\* No cache_result call.
TTLIdle ==
    /\ ttl_operation = "unknown_operation"
    /\ ttl_confidence = NoConfidence
    /\ base_ttl = 0
    /\ setex_ttl = 0

\* cache_result, lines 191-194: the TTL is computed and given to SETEX.
setex_with_adaptive_ttl ==
    /\ setex_ttl = 0
    /\ setex_ttl' = calculate_adaptive_ttl(ttl_operation, ttl_confidence, base_ttl)
    /\ UNCHANGED <<ttl_operation, ttl_confidence, base_ttl>>
    /\ UNCHANGED <<lbVars, batchVars, cacheVars, engineVars, keyVars, alertVars, computeVars, waitVars, orchVars, windowVars, prioVars, fanVars>>

(***************************************************************************)
(* Inference cache: cache key                                              *)
(***************************************************************************)

\* Keys a payload map can hold, named by their rank in sort order.
MaxMapKeys == 2

MapKeys == 1..MaxMapKeys

\* Keys of a nested map.
InnerKeys == {1, 2}

\* Scalar values.
Atoms == {7}

\* The atom field of an entry whose value is a nested map.
NoAtom == 0

DistinctKeys(m) == \A i, j \in DOMAIN m : m[i].k = m[j].k => i = j

\* Nested maps: entries in the order the caller listed them.
InnerMaps ==
    {m \in UNION {[1..n -> [k : InnerKeys, atom : Atoms]] : n \in 0..Cardinality(InnerKeys)} :
        DistinctKeys(m)}

\* An entry of a payload: a key with a scalar or with a nested map.
PayloadEntries ==
    [k : MapKeys, atom : Atoms, map : {<< >>}] \cup [k : MapKeys, atom : {NoAtom}, map : InnerMaps]

\* Request payloads (Dict[str, Any]): entries in the order listed.
Payloads ==
    {m \in UNION {[1..n -> PayloadEntries] : n \in 0..MaxMapKeys} : DistinctKeys(m)}

\* Two nested maps hold the same keys and values.
SameInner(a, b) ==
    /\ Len(a) = Len(b)
    /\ \A i \in DOMAIN a : \E j \in DOMAIN b : a[i] = b[j]

\* Two payloads hold the same keys and values at every depth.
SameContent(a, b) ==
    /\ Len(a) = Len(b)
    /\ \A i \in DOMAIN a : \E j \in DOMAIN b :
          /\ a[i].k = b[j].k
          /\ a[i].atom = b[j].atom
          /\ SameInner(a[i].map, b[j].map)

\* The entries of a map in key order.
sort_keys(m) == SortSeq(m, LAMBDA a, b : a.k < b.k)

\* Variant: json.dumps without sort_keys writes the entries as listed.
dumps_as_listed(data) == data

\* json.dumps(data, sort_keys=True, separators=(',', ':')): the entries of
\* every map, nested ones included, are written in key order.
dumps(data) ==
    sort_keys([i \in DOMAIN data |-> [data[i] EXCEPT !.map = sort_keys(@)]])

\* hashlib.sha256(data_str.encode()).hexdigest()[:16] is a function of the
\* string; the model keeps the string, which tells apart at least what the
\* digest tells apart.
sha256_prefix(data_str) == data_str

\* Variant: a cache key without the user.
generate_cache_key_without_user(operation, user_id, data) ==
    <<"ai_inference", operation, "", sha256_prefix(dumps(data))>>

\* InferenceCache._generate_cache_key
generate_cache_key(operation, user_id, data) ==
    <<"ai_inference", operation, user_id, sha256_prefix(dumps(data))>>

\* The payloads the second request is drawn from: every listing of the
\* first payload's content and the payloads of at most one entry.
second_payloads(first) ==
    {m \in Payloads : SameContent(first, m) \/ Len(m) <= 1}

\* Two requests of one operation and user, the store empty.
KeyInit ==
    /\ first_data \in Payloads
    /\ second_data \in second_payloads(first_data)
    /\ key_operation \in {"budget_optimization", "portfolio_analysis"}
    /\ key_user \in {"u1", "u2"}
    /\ redis_keys = {}
    /\ second_lookup = "none"

\* No request.
KeyIdle ==
    /\ key_operation = "budget_optimization"
    /\ key_user = "u1"
    /\ first_data = << >>
    /\ second_data = << >>
    /\ redis_keys = {}
    /\ second_lookup = "none"

\* cache_result for the first request: SETEX under its cache key.
key_cache_result ==
    /\ redis_keys = {}
    /\ redis_keys' = {generate_cache_key(key_operation, key_user, first_data)}
    /\ UNCHANGED <<key_operation, key_user, first_data, second_data, second_lookup>>
    /\ UNCHANGED <<lbVars, batchVars, cacheVars, engineVars, ttlVars, alertVars, computeVars, waitVars, orchVars, windowVars, prioVars, fanVars>>

\* get_cached_result for the second request: GET under its cache key.
key_get_cached_result ==
    /\ redis_keys # {}
    /\ second_lookup = "none"
    /\ second_lookup' =
          IF generate_cache_key(key_operation, key_user, second_data) \in redis_keys
          THEN "hit" ELSE "miss"
    /\ UNCHANGED <<key_operation, key_user, first_data, second_data, redis_keys>>
    /\ UNCHANGED <<lbVars, batchVars, cacheVars, engineVars, ttlVars, alertVars, computeVars, waitVars, orchVars, windowVars, prioVars, fanVars>>

(***************************************************************************)
(* Performance alerter                                                     *)
(***************************************************************************)

\* Iterations of _alerting_loop explored in one behaviour.
MaxAlertChecks == 2

\* The metric types explored, in the order of PerformanceAlerter.thresholds.
AlertMetrics == <<"response_time", "throughput">>

\* PerformanceThreshold.min_samples
min_samples == 10

\* PerformanceAlerter.thresholds[metric_type]
alert_threshold(metric_type) ==
    CASE metric_type = "response_time" -> [warning |-> 300, critical |-> 500, emergency |-> 1000]
      [] metric_type = "throughput" -> [warning |-> 50, critical |-> 25, emergency |-> 10]
      [] metric_type = "error_rate" -> [warning |-> 5, critical |-> 10, emergency |-> 25]
      [] metric_type = "cache_hit_rate" -> [warning |-> 70, critical |-> 50, emergency |-> 25]
      [] metric_type = "memory_usage" -> [warning |-> 80, critical |-> 90, emergency |-> 95]
      [] metric_type = "cpu_usage" -> [warning |-> 70, critical |-> 85, emergency |-> 95]
      [] OTHER -> [warning |-> 100, critical |-> 500, emergency |-> 1000]

\* Values of the statistic the check reads (p95, mean or max over the
\* window): on, between and beyond the three thresholds.
StatValues(metric_type) ==
    IF metric_type = "throughput" THEN {60, 50, 40, 20, 5}
    ELSE {250, 300, 400, 600, 1200}

\* Sample counts in the window: none, fewer than min_samples, enough.
StatCounts == {0, 5, 10}

\* Time one loop iteration takes: the 10 s sleep, or over an hour when the
\* awaited store calls stall.
AlertTicks == {10, 3700}

\* alert_history entries older than this are dropped (timedelta(hours=1)).
history_retention == 3600

\* No alert under a key of active_alerts.
NoAlert ==
    [metric_type |-> "none", severity |-> "none", message |-> <<"none", 0, 0>>,
     current_value |-> 0,
     threshold_value |-> 0, timestamp |-> 0, duration_seconds |-> 0, resolved |-> FALSE,
     stats |-> [count |-> 0, value |-> 0]]

\* PerformanceAlerter._threshold_exceeded
threshold_exceeded(metric_type, current_value, threshold) ==
    IF metric_type \in {"throughput", "cache_hit_rate"}
    THEN current_value < threshold
    ELSE current_value > threshold

\* Variant: the levels are tried from the least severe up.
severity_of_least_first(metric_type, current_value) ==
    LET t == alert_threshold(metric_type) IN
    IF threshold_exceeded(metric_type, current_value, t.warning) THEN "warning"
    ELSE IF threshold_exceeded(metric_type, current_value, t.critical) THEN "critical"
    ELSE IF threshold_exceeded(metric_type, current_value, t.emergency) THEN "emergency"
    ELSE "none"

\* _check_threshold, lines 377-391: the most severe level breached.
severity_of(metric_type, current_value) ==
    LET t == alert_threshold(metric_type) IN
    IF threshold_exceeded(metric_type, current_value, t.emergency) THEN "emergency"
    ELSE IF threshold_exceeded(metric_type, current_value, t.critical) THEN "critical"
    ELSE IF threshold_exceeded(metric_type, current_value, t.warning) THEN "warning"
    ELSE "none"

\* The threshold of a severity level.
threshold_value_of(metric_type, severity) ==
    LET t == alert_threshold(metric_type) IN
    CASE severity = "emergency" -> t.emergency
      [] severity = "critical" -> t.critical
      [] severity = "warning" -> t.warning
      [] OTHER -> 0

\* PerformanceAlerter._generate_alert_message: the text names the severity,
\* the value and the threshold.
generate_alert_message(metric_type, current_value, threshold_value, severity) ==
    <<severity, current_value, threshold_value>>

\* PerformanceAlerter._store_alert: SETEX the alert, then SADD or SREM its
\* id in perf_alerts:active; a store error is logged and nothing changes.
store_alert(active_ids, metric_type, alert, store_ok) ==
    IF ~store_ok THEN active_ids
    ELSE IF alert.resolved THEN active_ids \ {metric_type}
    ELSE active_ids \cup {metric_type}

\* Variant: a resolved alert keeps duration_seconds as last updated.
resolved_alert_without_duration(alert, current_time) == [alert EXCEPT !.resolved = TRUE]

\* _check_threshold line 425 and _resolve_alert line 472: the alert as it
\* is appended to alert_history.
resolved_alert(alert, current_time) ==
    [alert EXCEPT !.resolved = TRUE, !.duration_seconds = current_time - alert.timestamp]

\* Variant: an alert whose severity changes is replaced by a new alert.
updated_alert_recreated(alert, metric_type, stats, current_time) ==
    LET severity == severity_of(metric_type, stats.value)
        threshold_value == threshold_value_of(metric_type, severity)
    IN IF alert.severity # severity
       THEN [metric_type |-> metric_type,
             severity |-> severity,
             message |-> generate_alert_message(metric_type, stats.value, threshold_value, severity),
             current_value |-> stats.value,
             threshold_value |-> threshold_value,
             timestamp |-> current_time,
             duration_seconds |-> 0,
             resolved |-> FALSE,
             stats |-> stats]
       ELSE [alert EXCEPT !.current_value = stats.value, !.stats = stats]

\* _check_threshold, lines 408-418: the existing alert updated in place.
updated_alert(alert, metric_type, stats, current_time) ==
    LET severity == severity_of(metric_type, stats.value)
        threshold_value == threshold_value_of(metric_type, severity)
    IN [alert EXCEPT
           !.severity = severity,
           !.message = IF alert.severity # severity
                       THEN generate_alert_message(metric_type, stats.value,
                                                   threshold_value, severity)
                       ELSE @,
           !.current_value = stats.value,
           !.stats = stats]

\* _check_threshold, lines 396-405: a new alert.
created_alert(metric_type, stats, current_time) ==
    LET severity == severity_of(metric_type, stats.value)
        threshold_value == threshold_value_of(metric_type, severity)
    IN [metric_type |-> metric_type,
        severity |-> severity,
        message |-> generate_alert_message(metric_type, stats.value, threshold_value, severity),
        current_value |-> stats.value,
        threshold_value |-> threshold_value,
        timestamp |-> current_time,
        duration_seconds |-> 0,
        resolved |-> FALSE,
        stats |-> stats]

\* _cleanup_resolved_alerts: drop resolved alerts created more than an
\* hour ago from the left of the history.
RECURSIVE cleanup_resolved_alerts(_, _)
cleanup_resolved_alerts(history, current_time) ==
    IF /\ history # << >>
       /\ Head(history).timestamp < current_time - history_retention
       /\ Head(history).resolved
    THEN cleanup_resolved_alerts(Tail(history), current_time)
    ELSE history

\* No _check_threshold call has run in this iteration.
NoCheck == -1

\* Variant: any non-empty window of samples is acted on.
enough_samples_nonempty(count) == count # 0

\* _check_threshold, line 363: the negation of
\* `not stats or stats["count"] < threshold.min_samples`; the collector
\* returns {} for a window with no sample.
enough_samples(count) == ~(count = 0 \/ count < min_samples)

\* PerformanceAlerter(redis_client, collector)
AlertInit ==
    /\ active_alerts = [m \in Range(AlertMetrics) |-> NoAlert]
    /\ alert_history = << >>
    /\ perf_alerts_active = {}
    /\ alert_clock = 0
    /\ alerting_pc = "sleeping"
    /\ check_index = 1
    /\ alert_checks = 0
    /\ checked_count = NoCheck

\* The alerter before start_alerting.
AlertIdle == AlertInit

\* _alerting_loop: `await asyncio.sleep(10)` returns.
alerting_sleep(elapsed) ==
    /\ alerting_pc = "sleeping"
    /\ alert_checks < MaxAlertChecks
    /\ alert_clock' = alert_clock + elapsed
    /\ alerting_pc' = "checking"
    /\ check_index' = 1
    /\ alert_checks' = alert_checks + 1
    /\ checked_count' = NoCheck
    /\ UNCHANGED <<active_alerts, alert_history, perf_alerts_active>>
    /\ UNCHANGED <<lbVars, batchVars, cacheVars, engineVars, ttlVars, keyVars, computeVars, waitVars, orchVars, windowVars, prioVars, fanVars>>

\* PerformanceAlerter._check_threshold for the next metric type, on the
\* statistics the collector returns for its window.
check_threshold(count, value, store_ok) ==
    /\ alerting_pc = "checking"
    /\ LET metric_type == AlertMetrics[check_index]
           stats == [count |-> count, value |-> value]
           existing_alert == active_alerts[metric_type]
       IN /\ value \in StatValues(metric_type)
          /\ IF ~enough_samples(count)
             THEN UNCHANGED <<active_alerts, alert_history, perf_alerts_active>>
             ELSE IF severity_of(metric_type, value) # "none"
             THEN IF existing_alert = NoAlert
                  THEN LET alert == created_alert(metric_type, stats, alert_clock) IN
                       /\ active_alerts' = [active_alerts EXCEPT ![metric_type] = alert]
                       /\ perf_alerts_active' =
                             store_alert(perf_alerts_active, metric_type, alert, store_ok)
                       /\ UNCHANGED alert_history
                  ELSE LET alert == updated_alert(existing_alert, metric_type, stats, alert_clock) IN
                       /\ active_alerts' = [active_alerts EXCEPT ![metric_type] = alert]
                       /\ perf_alerts_active' =
                             IF alert.severity # existing_alert.severity
                             THEN store_alert(perf_alerts_active, metric_type, alert, store_ok)
                             ELSE perf_alerts_active
                       /\ UNCHANGED alert_history
             ELSE IF existing_alert # NoAlert
             THEN LET alert == resolved_alert(existing_alert, alert_clock) IN
                  /\ alert_history' = Append(alert_history, alert)
                  /\ active_alerts' = [active_alerts EXCEPT ![metric_type] = NoAlert]
                  /\ perf_alerts_active' =
                        store_alert(perf_alerts_active, metric_type, alert, store_ok)
             ELSE UNCHANGED <<active_alerts, alert_history, perf_alerts_active>>
    /\ IF check_index < Len(AlertMetrics)
       THEN /\ check_index' = check_index + 1
            /\ UNCHANGED alerting_pc
       ELSE /\ alerting_pc' = "updating"
            /\ UNCHANGED check_index
    /\ checked_count' = count
    /\ UNCHANGED <<alert_clock, alert_checks>>
    /\ UNCHANGED <<lbVars, batchVars, cacheVars, engineVars, ttlVars, keyVars, computeVars, waitVars, orchVars, windowVars, prioVars, fanVars>>

\* _alerting_loop after the checks: _update_alert_durations, then
\* _cleanup_resolved_alerts.
update_alert_durations ==
    /\ alerting_pc = "updating"
    /\ active_alerts' =
          [m \in Range(AlertMetrics) |->
              IF active_alerts[m] = NoAlert THEN NoAlert
              ELSE [active_alerts[m] EXCEPT
                       !.duration_seconds = alert_clock - active_alerts[m].timestamp]]
    /\ alert_history' = cleanup_resolved_alerts(alert_history, alert_clock)
    /\ alerting_pc' = "sleeping"
    /\ checked_count' = NoCheck
    /\ UNCHANGED <<perf_alerts_active, alert_clock, check_index, alert_checks>>
    /\ UNCHANGED <<lbVars, batchVars, cacheVars, engineVars, ttlVars, keyVars, computeVars, waitVars, orchVars, windowVars, prioVars, fanVars>>

(***************************************************************************)
(* Engine: compute_batch over the load balancer                            *)
(***************************************************************************)

\* compute_batch calls running at the same time.
MaxComputeTasks == 2

ComputeTasks == 1..MaxComputeTasks

\* Requests the compute_batch calls of one behaviour work through.
MaxComputeRequests == 12

\* OptimizedAIEngine() before any compute_batch call.
ComputeInit ==
    /\ compute_pc = [w \in ComputeTasks |-> "idle"]
    /\ compute_endpoint = [w \in ComputeTasks |-> NoEndpoint]
    /\ compute_requests = 0

ComputeIdle == ComputeInit

\* compute_batch, lines 279-289, for its next request: select_endpoint and
\* acquire_endpoint, which run without a suspension point.  With no
\* endpoint, or the acquisition refused, the raised exception is caught at
\* line 327 and an error result is appended.
compute_batch_acquire(w) ==
    /\ compute_pc[w] = "idle"
    /\ compute_requests < MaxComputeRequests
    /\ compute_requests' = compute_requests + 1
    /\ LET available == available_endpoints
           endpoint == IF available = <<>> THEN NoEndpoint ELSE strategy_select(available)
       IN /\ circuit_breaker_state' = circuit_after_select
          /\ round_robin_index' =
                IF available # <<>> /\ lb_strategy = "round_robin"
                THEN (round_robin_index + 1) % RoundRobinModulus
                ELSE round_robin_index
          /\ IF endpoint = NoEndpoint \/ current_load[endpoint] >= max_concurrent[endpoint]
             THEN UNCHANGED <<current_load, requests_started, compute_pc, compute_endpoint>>
             ELSE /\ current_load' = [current_load EXCEPT ![endpoint] = @ + 1]
                  /\ requests_started' = requests_started + 1
                  /\ compute_pc' = [compute_pc EXCEPT ![w] = "inference"]
                  /\ compute_endpoint' = [compute_endpoint EXCEPT ![w] = endpoint]
    /\ selected' = NoCall
    /\ UNCHANGED <<lb_strategy, healthy, success_rate, avg_response_time_ms, now,
                   recent_failures>>
    /\ UNCHANGED <<batchVars, cacheVars, engineVars, ttlVars, keyVars, alertVars, waitVars, orchVars, windowVars, prioVars, fanVars>>

\* compute_batch, lines 293-325: _execute_model_inference returns and the
\* endpoint is released with success, or it raises and the endpoint is
\* released with failure (LoadBalancer.release_endpoint); the loop goes on
\* to the next request.
compute_batch_release(w, response_time_ms, success) ==
    /\ compute_pc[w] = "inference"
    /\ LET e == compute_endpoint[w] IN
       /\ success \/ e \in FailingEndpoints
       /\ current_load' = [current_load EXCEPT ![e] = Max(0, @ - 1)]
       /\ IF success
          THEN /\ avg_response_time_ms' =
                     [avg_response_time_ms EXCEPT ![e] = moving_average(@, response_time_ms)]
               /\ success_rate' = [success_rate EXCEPT ![e] = Min(100, @ + 1)]
               /\ circuit_breaker_state' =
                     [circuit_breaker_state EXCEPT ![e] = handle_endpoint_success(@)]
               /\ recent_failures' = [recent_failures EXCEPT ![e] = 0]
          ELSE /\ success_rate' = [success_rate EXCEPT ![e] = Max(0, @ - 5)]
               /\ circuit_breaker_state' =
                     [circuit_breaker_state EXCEPT ![e] = handle_endpoint_failure(@, now)]
               /\ recent_failures' =
                     [recent_failures EXCEPT ![e] = Min(circuit_breaker_threshold, @ + 1)]
               /\ UNCHANGED avg_response_time_ms
    /\ compute_pc' = [compute_pc EXCEPT ![w] = "idle"]
    /\ compute_endpoint' = [compute_endpoint EXCEPT ![w] = NoEndpoint]
    /\ selected' = NoCall
    /\ UNCHANGED <<lb_strategy, healthy, round_robin_index, now, requests_started,
                   compute_requests>>
    /\ UNCHANGED <<batchVars, cacheVars, engineVars, ttlVars, keyVars, alertVars, waitVars, orchVars, windowVars, prioVars, fanVars>>

\* The task running compute_batch is cancelled while it awaits
\* _execute_model_inference (line 296): CancelledError is not an Exception,
\* so neither `except Exception` (lines 314, 327) runs and the call ends
\* without a release.
compute_batch_cancelled(w) ==
    /\ compute_pc[w] = "inference"
    /\ compute_pc' = [compute_pc EXCEPT ![w] = "cancelled"]
    /\ compute_endpoint' = [compute_endpoint EXCEPT ![w] = NoEndpoint]
    /\ UNCHANGED <<lbVars, compute_requests>>
    /\ UNCHANGED <<batchVars, cacheVars, engineVars, ttlVars, keyVars, alertVars, waitVars, orchVars, windowVars, prioVars, fanVars>>

(***************************************************************************)
(* Request batcher: adaptive wait time                                     *)
(***************************************************************************)

\* Entries of recent_latencies explored.
MaxLatencies == 2

\* processing_time_ms values _process_batch has appended to recent_latencies.
LatencyValues == {0, 50, 100, 200, 400, 1000}

\* config.max_wait_time_ms values explored.
WaitConfigs == {1, 2, 4, 5, 10, 50, 100}

\* adaptive_params['load_factor']: set to 1.0 at construction, never written.
load_factor == 1

\* The 10 ms floor of line 236, in ms.
min_wait_ms == 10

\* The latency target of line 226, in ms.
latency_target_ms == 200

\* No wait time computed yet.
NoWait == [num |-> 0, den |-> 1]

RECURSIVE SumSeq(_)
SumSeq(q) == IF q = << >> THEN 0 ELSE Head(q) + SumSeq(Tail(q))

\* latency_factor of lines 224-228 as a fraction: avg_latency / 200 kept
\* within [0.5, 2.0], or 1.0 with no latency recorded.
latency_factor(latencies) ==
    IF latencies = << >> THEN [num |-> 1, den |-> 1]
    ELSE LET total == SumSeq(latencies)
             target == latency_target_ms * Len(latencies)
         IN IF 2 * total < target THEN [num |-> 1, den |-> 2]
            ELSE IF total > 2 * target THEN [num |-> 2, den |-> 1]
            ELSE [num |-> total, den |-> target]

\* _calculate_adaptive_wait_time, in ms, as the fraction num / den with
\* den = 2 * max_batch_size * latency_factor.den:
\*   base * (1 - min(queue_len / max_batch_size, 1) * 0.5) * latency_factor * load_factor
\* then max(0.01, min(adaptive_wait, base_wait_time * 2)).
calculate_adaptive_wait_time(strategy, base_wait_ms, queue_len, latencies) ==
    IF strategy # "adaptive" THEN [num |-> base_wait_ms, den |-> 1]
    ELSE LET lf == latency_factor(latencies)
             den == 2 * MaxBatchSize * lf.den
             adaptive == base_wait_ms * (2 * MaxBatchSize - Min(queue_len, MaxBatchSize))
                            * lf.num * load_factor
         IN [num |-> Max(min_wait_ms * den, Min(adaptive, 2 * base_wait_ms * den)),
             den |-> den]

RECURSIVE LatencySeqs(_)
LatencySeqs(n) ==
    IF n = 0 THEN {<< >>}
    ELSE LatencySeqs(n - 1)
         \cup {Append(q, v) : q \in {x \in LatencySeqs(n - 1) : Len(x) = n - 1},
                              v \in LatencyValues}

\* RequestBatcher(config) with some batches processed and a queue of
\* waiting requests, before the timer of the queue's key is created.
WaitInit ==
    /\ wait_strategy \in {"adaptive", "time_based"}
    /\ max_wait_time_ms \in WaitConfigs
    /\ wait_queue_len \in 0..MaxBatchSize
    /\ recent_latencies \in LatencySeqs(MaxLatencies)
    /\ adaptive_wait = NoWait

\* The batcher before any timer is created.
WaitIdle ==
    /\ wait_strategy = "adaptive"
    /\ max_wait_time_ms = 50
    /\ wait_queue_len = 0
    /\ recent_latencies = << >>
    /\ adaptive_wait = NoWait

\* _maybe_trigger_batch, lines 204-209: the wait time of the new timer.
maybe_trigger_batch_wait ==
    /\ adaptive_wait = NoWait
    /\ adaptive_wait' = calculate_adaptive_wait_time(wait_strategy, max_wait_time_ms,
                                                     wait_queue_len, recent_latencies)
    /\ UNCHANGED <<wait_strategy, max_wait_time_ms, wait_queue_len, recent_latencies>>
    /\ UNCHANGED <<lbVars, batchVars, cacheVars, engineVars, ttlVars, keyVars, alertVars,
                   computeVars, orchVars, windowVars,
                   prioVars, fanVars>>

(***************************************************************************)
(* Orchestrator: backend selection and the multi-agent backend (engine.py) *)
(***************************************************************************)

\* OperationType.
OperationTypes == {"budget_optimization", "portfolio_analysis", "debt_strategy",
                   "market_intelligence", "goal_planning", "financial_analysis"}

\* The keys of MultiAgentBackend.agent_registry.
AgentNames == {"budget_agent", "investment_agent", "debt_agent", "market_agent", "goal_agent"}

\* len(str(request.data)) of the requests explored; "{}" has length 2.
DataSizes == {2, 5000, 10000, 20000}

\* hash(user_id) % 100 of the users explored.
UserHashes == {0, 7, 19, 20, 55}

\* AIRequest.priority: 1 = high, 2 = medium, 3 = low.
RequestPriorities == {1, 2, 3}

\* No PerformanceMetrics recorded for the backend.
NoMetrics == [recorded |-> FALSE]

\* PerformanceMetrics explored: success_rate and resource_utilization in
\* hundredths, avg_response_time_ms in ms.
MetricsValues ==
    {NoMetrics}
    \cup {[recorded |-> TRUE, success_rate |-> sr, avg_response_time_ms |-> rt,
           resource_utilization |-> ru] :
             sr \in {95, 96, 100}, rt \in {250, 500}, ru \in {75, 90}}

\* No response yet.
NoOrchResponse == [success |-> FALSE, backend_used |-> "none", agents_used |-> {}, error |-> FALSE]

\* operation_complexity of _assess_complexity, in ten-thousandths.
operation_complexity(operation) ==
    CASE operation = "budget_optimization" -> 6000
      [] operation = "portfolio_analysis" -> 8000
      [] operation = "debt_strategy" -> 7000
      [] operation = "market_intelligence" -> 9000
      [] operation = "goal_planning" -> 8000
      [] operation = "financial_analysis" -> 5000

\* The three complexity factors of _assess_complexity added up, in
\* ten-thousandths; the score is this sum divided by 3.
complexity_sum(request) ==
    Min(request.data_size, 10000)
    + operation_complexity(request.operation)
    + (IF request.priority = 1 THEN 3000 ELSE 1000)

\* complexity_score > 0.8 of select_backend: sum / 3 > 0.8.
high_complexity(request) == complexity_sum(request) > 24000

\* _is_ab_test_user: hash(user_id) % 100 < 20.
is_ab_test_user(user_hash) == user_hash < 20

\* _get_ab_test_variant: hash(user_id) % 2 == 0.
get_ab_test_variant(user_hash) ==
    IF user_hash % 2 = 0 THEN "multi_agent" ELSE "monolithic"

\* _is_backend_healthy(MULTI_AGENT).
is_backend_healthy(metrics) ==
    /\ metrics # NoMetrics
    /\ metrics.success_rate > 95
    /\ metrics.avg_response_time_ms < 500
    /\ metrics.resource_utilization < 90

\* BackendSelector.select_backend as a function of the request and the
\* recorded metrics.
selected_backend(request, metrics) ==
    IF is_ab_test_user(request.user_hash) THEN get_ab_test_variant(request.user_hash)
    ELSE IF high_complexity(request) /\ is_backend_healthy(metrics) THEN "multi_agent"
    ELSE "monolithic"

\* _determine_required_agents.
determine_required_agents(operation) ==
    CASE operation = "budget_optimization" -> {"budget_agent"}
      [] operation = "portfolio_analysis" -> {"investment_agent"}
      [] operation = "debt_strategy" -> {"debt_agent"}
      [] operation = "market_intelligence" -> {"market_agent"}
      [] operation = "goal_planning" -> {"goal_agent"}
      [] operation = "financial_analysis" -> {"budget_agent", "investment_agent"}

\* _coordinate_agents: the agents whose gathered result is not an exception.
coordinate_agents(required_agents, failing) == required_agents \ failing

OrchRequests ==
    [user_hash : UserHashes, operation : OperationTypes, data_size : DataSizes,
     priority : RequestPriorities]

\* An orchestrator that is handed a request; the agents that will fail
\* during this request are fixed up front.
OrchInit ==
    /\ orch_pc = "select"
    /\ orch_request \in OrchRequests
    /\ performance_history \in MetricsValues
    /\ failing_agents \in SUBSET AgentNames
    /\ backend_type = "none"
    /\ orch_response = NoOrchResponse

\* The orchestrator before any request.
OrchIdle ==
    /\ orch_pc = "select"
    /\ orch_request = [user_hash |-> 55, operation |-> "financial_analysis", data_size |-> 2,
                        priority |-> 1]
    /\ performance_history = NoMetrics
    /\ failing_agents = {}
    /\ backend_type = "none"
    /\ orch_response = NoOrchResponse

\* process_request, lines 456-458: select_backend.
select_backend ==
    /\ orch_pc = "select"
    /\ backend_type' = selected_backend(orch_request, performance_history)
    /\ orch_pc' = "execute"
    /\ UNCHANGED <<orch_request, performance_history, failing_agents, orch_response>>
    /\ UNCHANGED <<lbVars, batchVars, cacheVars, engineVars, ttlVars, keyVars, alertVars,
                   computeVars, waitVars, windowVars,
                   prioVars, fanVars>>

\* MonolithicBackend.execute_request: the placeholder inference returns.
monolithic_execute_request ==
    /\ orch_pc = "execute"
    /\ backend_type = "monolithic"
    /\ orch_response' = [success |-> TRUE, backend_used |-> "monolithic", agents_used |-> {},
                          error |-> FALSE]
    /\ orch_pc' = "done"
    /\ UNCHANGED <<orch_request, performance_history, failing_agents, backend_type>>
    /\ UNCHANGED <<lbVars, batchVars, cacheVars, engineVars, ttlVars, keyVars, alertVars,
                   computeVars, waitVars, windowVars,
                   prioVars, fanVars>>

\* MultiAgentBackend.execute_request: _coordinate_agents gathers the agent
\* tasks with return_exceptions=True and drops the failed ones without
\* raising, _aggregate_results accepts any dictionary, and the response is
\* built with success=True; the except branch is reached by none of this.
multi_agent_execute_request ==
    /\ orch_pc = "execute"
    /\ backend_type = "multi_agent"
    /\ LET required_agents == determine_required_agents(orch_request.operation)
           agent_results == coordinate_agents(required_agents, failing_agents)
       IN orch_response' = [success |-> TRUE, backend_used |-> "multi_agent",
                            agents_used |-> agent_results, error |-> FALSE]
    /\ orch_pc' = "done"
    /\ UNCHANGED <<orch_request, performance_history, failing_agents, backend_type>>
    /\ UNCHANGED <<lbVars, batchVars, cacheVars, engineVars, ttlVars, keyVars, alertVars,
                   computeVars, waitVars, windowVars,
                   prioVars, fanVars>>

(***************************************************************************)
(* Inference cache: how many requests one batch window collects            *)
(***************************************************************************)

\* Callers that attach to one batch key within one window.
MaxAttached == 34

\* InferenceCache.max_batch_size.
cache_max_batch_size == 32

\* InferenceCache(redis_client): no batch key pending, compute_func not called.
WindowInit ==
    /\ window_scheduled = FALSE
    /\ window_pending = 0
    /\ window_cancelled = 0
    /\ passed_requests = 0

WindowIdle == WindowInit

\* get_or_batch_compute, lines 283-300, on a cache miss of a
\* batch-compatible operation: the first caller of the batch key creates
\* the list and schedules _execute_batch; every caller appends its future
\* and request, whatever the length of the list.
window_get_or_batch_compute ==
    /\ window_pending < MaxAttached
    /\ window_scheduled' = TRUE
    /\ window_pending' = window_pending + 1
    /\ UNCHANGED <<window_cancelled, passed_requests>>
    /\ UNCHANGED <<lbVars, batchVars, cacheVars, engineVars, ttlVars, keyVars, alertVars,
                   computeVars, waitVars, orchVars,
                   prioVars, fanVars>>

\* A caller waiting on its future is cancelled, which cancels the future.
window_cancel_caller ==
    /\ window_cancelled < window_pending
    /\ window_cancelled' = window_cancelled + 1
    /\ UNCHANGED <<window_scheduled, window_pending, passed_requests>>
    /\ UNCHANGED <<lbVars, batchVars, cacheVars, engineVars, ttlVars, keyVars, alertVars,
                   computeVars, waitVars, orchVars,
                   prioVars, fanVars>>

\* _execute_batch, lines 303-331: after the sleep the whole list is popped
\* and every request whose future is not cancelled goes into one
\* compute_func(requests) call; with no such request nothing is called.
window_execute_batch ==
    /\ window_scheduled
    /\ LET requests == window_pending - window_cancelled IN
       passed_requests' = IF requests = 0 THEN passed_requests ELSE requests
    /\ window_scheduled' = FALSE
    /\ window_pending' = 0
    /\ window_cancelled' = 0
    /\ UNCHANGED <<lbVars, batchVars, cacheVars, engineVars, ttlVars, keyVars, alertVars,
                   computeVars, waitVars, orchVars,
                   prioVars, fanVars>>

(***************************************************************************)
(* Request batcher: priority mode over time                                *)
(***************************************************************************)

\* The clock stops here.
MaxBatchClock == 21

\* Seconds that pass between two calls.
ClockSteps == {21}

\* PendingRequest.priority: 1 = high, 2 = medium, 3 = low.
PriorityLevels == {1, 2, 3}

\* No priority: the request is not submitted.
NoPriority == 0

\* RequestBatcher(BatchConfig(strategy=PRIORITY_AWARE)) at time 0.
PrioInit ==
    /\ batch_clock = 0
    /\ queued_at = [r \in Requests |-> NoTime]
    /\ request_priority = [r \in Requests |-> NoPriority]

PrioIdle == PrioInit

\* submit_request, lines 121-141: the PendingRequest is built with
\* queued_at = utcnow() and its priority, and in PRIORITY_AWARE mode pushed
\* with the score computed at this moment.
submit_request_queued(batch_key, priority, age) ==
    /\ next_request \in Requests
    /\ submit_request_batcher(batch_key, priority, age)
    /\ queued_at' = [queued_at EXCEPT ![next_request] = batch_clock]
    /\ request_priority' = [request_priority EXCEPT ![next_request] = priority]
    /\ UNCHANGED batch_clock
    /\ UNCHANGED <<lbVars, cacheVars, engineVars, ttlVars, keyVars, alertVars, computeVars, waitVars, orchVars, windowVars, fanVars>>

\* Time passes between two calls.
clock_advances(d) ==
    /\ batch_clock + d <= MaxBatchClock
    /\ batch_clock' = batch_clock + d
    /\ UNCHANGED <<queued_at, request_priority>>
    /\ UNCHANGED <<lbVars, batchVars, cacheVars, engineVars, ttlVars, keyVars, alertVars,
                   computeVars, waitVars, orchVars, windowVars, fanVars>>

(***************************************************************************)
(* Inference cache: the fan-out of a batch of several users                *)
(***************************************************************************)

\* Requests of one batch.
MaxFanRequests == 2

\* The users of the requests explored.
FanUsers == {"u1", "u2"}

\* The payloads explored: the empty one and one with a scalar entry.
FanPayloads == {m \in Payloads : Len(m) <= 1 /\ \A i \in DOMAIN m : m[i].map = << >> /\ m[i].k = 1}

\* The request lists explored: non-cancelled requests of one batch key.
FanRequestLists ==
    UNION {[1..n -> [user_id : FanUsers, data : FanPayloads]] : n \in 1..MaxFanRequests}

\* No get_cached_result call yet; result 0 is None.
NoLookup == [user_id |-> "none", data |-> << >>, stored_for |-> "none", result |-> 0]

\* Variant: every request is given the first result.
fanout_result_first(results, i) == results[1]

\* `result = results[i]` of the fan-out loop (positions from 1).
fanout_result(results, i) == results[i]

\* The fan-out loop: the first index from i on with `i < len(results) and
\* not future.cancelled()`, or 0 when the loop ends.
RECURSIVE fan_next(_, _, _)
fan_next(futures, results, i) ==
    IF i > Len(futures) THEN 0
    ELSE IF i <= Len(results) /\ futures[i].state # "cancelled" THEN i
    ELSE fan_next(futures, results, i + 1)

\* The except branch: set_exception on the futures that are not cancelled,
\* in order, until one that is already done raises InvalidStateError.
RECURSIVE fan_set_exception(_, _)
fan_set_exception(futures, i) ==
    IF i > Len(futures) THEN futures
    ELSE IF futures[i].state = "cancelled" THEN fan_set_exception(futures, i + 1)
    ELSE IF futures[i].state = "pending"
    THEN fan_set_exception([futures EXCEPT ![i] = [state |-> "exception", value |-> 0]], i + 1)
    ELSE futures

\* redis.setex(cache_key, ttl, result_data): the entry of the key is replaced.
fan_setex(st, cache_key, user_id, result) ==
    {e \in st : e.key # cache_key}
    \cup {[key |-> cache_key, stored_for |-> user_id, result |-> result]}

\* _execute_batch after the pop, with the requests whose futures are not
\* cancelled, about to call compute_func(requests); the store is empty.
FanInit ==
    /\ fan_pc = "computing"
    /\ fan_operation = "budget_optimization"
    /\ fan_requests \in FanRequestLists
    /\ fan_future = [i \in DOMAIN fan_requests |-> [state |-> "pending", value |-> 0]]
    /\ fan_results = << >>
    /\ fan_i = 0
    /\ fan_store = {}
    /\ fan_lookup = NoLookup

\* No batch.
FanIdle ==
    /\ fan_pc = "done"
    /\ fan_operation = "budget_optimization"
    /\ fan_requests = << >>
    /\ fan_future = << >>
    /\ fan_results = << >>
    /\ fan_i = 0
    /\ fan_store = {}
    /\ fan_lookup = NoLookup

\* compute_func(requests) returns n results, the j-th computed for the j-th
\* request (n may be smaller, or larger by one); the loop runs up to its
\* first `await self.cache_result(...)`.
fan_compute_returns(n) ==
    /\ fan_pc = "computing"
    /\ n <= Len(fan_requests) + 1
    /\ LET results == [j \in 1..n |-> j]
           i == fan_next(fan_future, results, 1)
       IN /\ fan_results' = results
          /\ fan_i' = i
          /\ fan_pc' = IF i = 0 THEN "done" ELSE "caching"
    /\ UNCHANGED <<fan_operation, fan_requests, fan_future, fan_store, fan_lookup>>
    /\ UNCHANGED <<lbVars, batchVars, cacheVars, engineVars, ttlVars, keyVars, alertVars,
                   computeVars, waitVars, orchVars, windowVars, prioVars>>

\* The caller awaiting the j-th future is cancelled.
fan_cancel_caller(j) ==
    /\ fan_pc # "done"
    /\ j \in DOMAIN fan_future
    /\ fan_future[j].state = "pending"
    /\ fan_future' = [fan_future EXCEPT ![j].state = "cancelled"]
    /\ UNCHANGED <<fan_pc, fan_operation, fan_requests, fan_results, fan_i, fan_store,
                   fan_lookup>>
    /\ UNCHANGED <<lbVars, batchVars, cacheVars, engineVars, ttlVars, keyVars, alertVars,
                   computeVars, waitVars, orchVars, windowVars, prioVars>>

\* One round of the fan-out loop, lines 334-344: cache_result for the i-th
\* request stores the result under the request's key (or fails and returns
\* False), then future.set_result(result); a future cancelled during the
\* await makes set_result raise into the except branch.
fan_cache_result(stored) ==
    /\ fan_pc = "caching"
    /\ LET request_data == fan_requests[fan_i]
           result == fanout_result(fan_results, fan_i)
           cache_key == generate_cache_key(fan_operation, request_data.user_id,
                                           request_data.data)
       IN /\ fan_store' = IF stored
                            THEN fan_setex(fan_store, cache_key, request_data.user_id, result)
                            ELSE fan_store
          /\ IF fan_future[fan_i].state = "pending"
             THEN LET completed ==
                          [fan_future EXCEPT ![fan_i] = [state |-> "result", value |-> result]]
                      i == fan_next(completed, fan_results, fan_i + 1)
                  IN /\ fan_future' = completed
                     /\ fan_i' = i
                     /\ fan_pc' = IF i = 0 THEN "done" ELSE "caching"
             ELSE /\ fan_future' = fan_set_exception(fan_future, 1)
                  /\ fan_i' = 0
                  /\ fan_pc' = "done"
    /\ UNCHANGED <<fan_operation, fan_requests, fan_results, fan_lookup>>
    /\ UNCHANGED <<lbVars, batchVars, cacheVars, engineVars, ttlVars, keyVars, alertVars,
                   computeVars, waitVars, orchVars, windowVars, prioVars>>

\* get_cached_result(operation, user_id, data): GET under the cache key.
fan_get_cached_result(user_id, data) ==
    /\ fan_requests # << >>
    /\ LET cache_key == generate_cache_key(fan_operation, user_id, data)
           hits == {e \in fan_store : e.key = cache_key}
       IN fan_lookup' =
             IF hits = {} THEN [NoLookup EXCEPT !.user_id = user_id, !.data = data]
             ELSE LET e == CHOOSE x \in hits : TRUE
                  IN [user_id |-> user_id, data |-> data, stored_for |-> e.stored_for,
                      result |-> e.result]
    /\ UNCHANGED <<fan_pc, fan_operation, fan_requests, fan_future, fan_results, fan_i,
                   fan_store>>
    /\ UNCHANGED <<lbVars, batchVars, cacheVars, engineVars, ttlVars, keyVars, alertVars,
                   computeVars, waitVars, orchVars, windowVars, prioVars>>

(***************************************************************************)
(* Specifications                                                          *)
(***************************************************************************)

\* The batcher as OptimizedAIEngine builds it, with nothing submitted.
BatchIdle == BatchInit /\ batch_strategy = "adaptive"

\* The load balancer as OptimizedAIEngine builds it, with nothing acquired.
LBIdle == LBInit /\ lb_strategy = "weighted_response_time"

\* The engine with no request received.
EngineIdle == EngineInit /\ engine_operation = "budget_optimization"

InitLB == LBInit /\ BatchIdle /\ CacheInit /\ EngineIdle /\ TTLIdle /\ KeyIdle /\ AlertIdle /\ ComputeIdle /\ WaitIdle /\ OrchIdle /\ WindowIdle /\ PrioIdle /\ FanIdle

NextLB ==
    \/ select_endpoint
    \/ \E e \in Endpoints : acquire_endpoint(e)
    \/ \E e \in Endpoints, rt \in RespTimes, ok \in BOOLEAN : release_endpoint(e, rt, ok)
    \/ health_check_loop
    \/ Tick

SpecLB == InitLB /\ [][NextLB]_vars

InitBatch == BatchInit /\ LBIdle /\ CacheInit /\ EngineIdle /\ TTLIdle /\ KeyIdle /\ AlertIdle /\ ComputeIdle /\ WaitIdle /\ OrchIdle /\ WindowIdle /\ PrioIdle /\ FanIdle

NextBatch ==
    \/ \E k \in BatchKeys, p \in Priorities, age \in ScoreAges : submit_request(k, p, age)
    \/ \E k \in BatchKeys : batch_timer(k)
    \/ \E k \in BatchKeys : flush_priority(k)
    \/ \E i \in 1..MaxSubmits : process_batch(i)

SpecBatch == InitBatch /\ [][NextBatch]_vars

\* The batcher on a running event loop: a timer whose sleep has ended and a
\* _process_batch task that was created are run.  Nothing schedules
\* submit_request or a direct _trigger_batch call.
SpecBatchLive ==
    /\ SpecBatch
    /\ \A k \in BatchKeys : WF_vars(batch_timer(k))
    /\ \A i \in 1..MaxSubmits : WF_vars(process_batch(i))

InitCache == CacheInit /\ LBIdle /\ BatchIdle /\ EngineIdle /\ TTLIdle /\ KeyIdle /\ AlertIdle /\ ComputeIdle /\ WaitIdle /\ OrchIdle /\ WindowIdle /\ PrioIdle /\ FanIdle

NextCache ==
    \/ \E c \in Callers, k \in CachePatterns : get_or_batch_compute(c, k)
    \/ \E t \in 1..MaxCallers : execute_batch(t)
    \/ \E t \in 1..MaxCallers, n \in 0..(MaxCallers + 1) : compute_returns(t, n)
    \/ \E t \in 1..MaxCallers : compute_raises(t)
    \/ \E t \in 1..MaxCallers, stored \in BOOLEAN : cache_result_returns(t, stored)
    \/ \E c \in Callers : cancel_caller(c)

SpecCache == InitCache /\ [][NextCache]_vars

\* The cache with its callers numbered in the order they arrive.
arrives_in_order(c) == \A q \in 1..(c - 1) : caller_future[q].state # "none"

NextCoalesce ==
    \/ \E c \in Callers, k \in CachePatterns :
          arrives_in_order(c) /\ get_or_batch_compute(c, k)
    \/ \E t \in 1..MaxCallers : execute_batch(t)
    \/ \E t \in 1..MaxCallers, n \in 0..(MaxCallers + 1) : compute_returns(t, n)
    \/ \E t \in 1..MaxCallers : compute_raises(t)
    \/ \E t \in 1..MaxCallers, stored \in BOOLEAN : cache_result_returns(t, stored)
    \/ \E c \in Callers : cancel_caller(c)

SpecCoalesce == InitCache /\ [][NextCoalesce]_vars

InitEngine == EngineInit /\ LBIdle /\ BatchIdle /\ CacheInit /\ TTLIdle /\ KeyIdle /\ AlertIdle /\ ComputeIdle /\ WaitIdle /\ OrchIdle /\ WindowIdle /\ PrioIdle /\ FanIdle

InitTTL == TTLInit /\ LBIdle /\ BatchIdle /\ CacheInit /\ EngineIdle /\ KeyIdle /\ AlertIdle /\ ComputeIdle /\ WaitIdle /\ OrchIdle /\ WindowIdle /\ PrioIdle /\ FanIdle

NextTTL == setex_with_adaptive_ttl

SpecTTL == InitTTL /\ [][NextTTL]_vars

InitAlert ==
    /\ AlertInit /\ LBIdle /\ BatchIdle /\ CacheInit /\ EngineIdle /\ TTLIdle /\ KeyIdle
    /\ ComputeIdle /\ WaitIdle /\ OrchIdle /\ WindowIdle /\ PrioIdle /\ FanIdle

NextAlert ==
    \/ \E elapsed \in AlertTicks : alerting_sleep(elapsed)
    \/ \E count \in StatCounts, value \in UNION {StatValues(m) : m \in Range(AlertMetrics)},
          store_ok \in BOOLEAN : check_threshold(count, value, store_ok)
    \/ update_alert_durations

SpecAlert == InitAlert /\ [][NextAlert]_vars

InitCompute ==
    /\ ComputeInit /\ LBInit /\ BatchIdle /\ CacheInit /\ EngineIdle /\ TTLIdle /\ KeyIdle
    /\ AlertIdle /\ WaitIdle /\ OrchIdle /\ WindowIdle /\ PrioIdle /\ FanIdle

\* compute_batch calls, some of them cancelled during the inference.
NextCompute ==
    \/ \E w \in ComputeTasks : compute_batch_acquire(w)
    \/ \E w \in ComputeTasks, rt \in RespTimes, ok \in BOOLEAN : compute_batch_release(w, rt, ok)
    \/ \E w \in ComputeTasks : compute_batch_cancelled(w)

SpecCompute == InitCompute /\ [][NextCompute]_vars

\* compute_batch calls while the health-check loop runs.
NextHealth ==
    \/ \E w \in ComputeTasks : compute_batch_acquire(w)
    \/ \E w \in ComputeTasks, rt \in RespTimes, ok \in BOOLEAN : compute_batch_release(w, rt, ok)
    \/ health_check_loop
    \/ Tick

\* The strategies the balancer is built with when the health checks are
\* explored; under least_connections consecutive requests go to the first
\* endpoint for as long as it is available.
HealthStrategies == {"least_connections"}

InitHealth == InitCompute /\ lb_strategy \in HealthStrategies /\ WaitIdle /\ OrchIdle /\ WindowIdle /\ PrioIdle /\ FanIdle

SpecHealth == InitHealth /\ [][NextHealth]_vars

\* _health_check_loop is a task that runs a pass every health_check_interval
\* seconds for as long as the balancer lives.
SpecHealthLive == SpecHealth /\ WF_vars(health_check_loop)

InitWait ==
    /\ WaitInit /\ LBIdle /\ BatchIdle /\ CacheInit /\ EngineIdle /\ TTLIdle /\ KeyIdle
    /\ AlertIdle /\ ComputeIdle /\ OrchIdle /\ WindowIdle /\ PrioIdle /\ FanIdle

NextWait == maybe_trigger_batch_wait

SpecWait == InitWait /\ [][NextWait]_vars

InitOrch ==
    /\ OrchInit /\ LBIdle /\ BatchIdle /\ CacheInit /\ EngineIdle /\ TTLIdle /\ KeyIdle
    /\ AlertIdle /\ ComputeIdle /\ WaitIdle /\ WindowIdle /\ PrioIdle /\ FanIdle

NextOrch ==
    \/ select_backend
    \/ monolithic_execute_request
    \/ multi_agent_execute_request

SpecOrch == InitOrch /\ [][NextOrch]_vars

InitWindow ==
    /\ WindowInit /\ LBIdle /\ BatchIdle /\ CacheInit /\ EngineIdle /\ TTLIdle /\ KeyIdle
    /\ AlertIdle /\ ComputeIdle /\ WaitIdle /\ OrchIdle /\ PrioIdle /\ FanIdle

NextWindow ==
    \/ window_get_or_batch_compute
    \/ window_cancel_caller
    \/ window_execute_batch

SpecWindow == InitWindow /\ [][NextWindow]_vars

InitPrio ==
    /\ BatchInit /\ batch_strategy = "priority_aware" /\ PrioInit
    /\ LBIdle /\ CacheInit /\ EngineIdle /\ TTLIdle /\ KeyIdle
    /\ AlertIdle /\ ComputeIdle /\ WaitIdle /\ OrchIdle /\ WindowIdle /\ FanIdle

\* The batcher in priority mode, with time passing between the calls; the
\* score is computed in the same clock tick as queued_at was taken.
NextPrio ==
    \/ \E k \in BatchKeys, p \in PriorityLevels : submit_request_queued(k, p, 0)
    \/ \E k \in BatchKeys : flush_priority(k)
    \/ \E d \in ClockSteps : clock_advances(d)

SpecPrio == InitPrio /\ [][NextPrio]_vars

InitFan ==
    /\ FanInit /\ LBIdle /\ BatchIdle /\ CacheInit /\ EngineIdle /\ TTLIdle /\ KeyIdle
    /\ AlertIdle /\ ComputeIdle /\ WaitIdle /\ OrchIdle /\ WindowIdle /\ PrioIdle

NextFan ==
    \/ \E n \in 0..(MaxFanRequests + 1) : fan_compute_returns(n)
    \/ \E j \in 1..MaxFanRequests : fan_cancel_caller(j)
    \/ \E stored \in BOOLEAN : fan_cache_result(stored)
    \/ \E u \in FanUsers, d \in FanPayloads : fan_get_cached_result(u, d)

SpecFan == InitFan /\ [][NextFan]_vars

InitKey == KeyInit /\ LBIdle /\ BatchIdle /\ CacheInit /\ EngineIdle /\ TTLIdle /\ AlertIdle /\ ComputeIdle /\ WaitIdle /\ OrchIdle /\ WindowIdle /\ PrioIdle /\ FanIdle

NextKey == key_cache_result \/ key_get_cached_result

SpecKey == InitKey /\ [][NextKey]_vars

\* The requests of the engine over a store whose entries expire.
NextEngine ==
    \/ \E r \in EngineRequests, u \in EngineUsers, ce \in BOOLEAN, be \in BOOLEAN,
          read_ok \in BOOLEAN : process_request(r, u, ce, be, read_ok)
    \/ \E r \in EngineRequests, read_ok \in BOOLEAN : engine_get_or_batch_compute(r, read_ok)
    \/ \E r \in EngineRequests, outcome \in ComputeOutcomes,
          fail_at \in write_failures(engine_operation) :
          compute_unbatched(r, outcome, fail_at)
    \/ \E r \in EngineRequests, outcome \in ComputeOutcomes : process_immediately(r, outcome)
    \/ \E results \in [1..Len(engine_pending) -> ComputeOutcomes],
          fails \in [1..Len(engine_pending) -> write_failures(engine_operation)] :
          engine_execute_batch(results, fails)
    \/ \E u \in EngineUsers : ttl_expires(u)

SpecEngine == InitEngine /\ [][NextEngine]_vars

\* The same requests while their timeouts run out.
NextDeadline ==
    \/ NextEngine
    \/ \E r \in EngineRequests : timeout_elapses(r)

SpecDeadline == InitEngine /\ [][NextDeadline]_vars

\* The same requests while dependency tags are invalidated.
NextInvalidation ==
    \/ NextEngine
    \/ \E tag \in Tags, ok \in BOOLEAN : invalidate_by_pattern(tag, ok)
    \/ \E ok \in BOOLEAN : invalidate_delete_entries(ok)
    \/ \E ok \in BOOLEAN : invalidate_delete_tag(ok)

SpecInvalidation == InitEngine /\ [][NextInvalidation]_vars


(***************************************************************************)
(* Load balancer: properties                                               *)
(***************************************************************************)

\* A step of acquire_endpoint(e) that returned true.
Acquired(e) == current_load'[e] = current_load[e] + 1

\* A step of release_endpoint(e, _, success).
Released(e, success) ==
    /\ current_load'[e] = current_load[e] - 1
    /\ success = (circuit_breaker_state'[e].failures # circuit_breaker_state[e].failures + 1)

\* A step of select_endpoint.
Selecting == selected' # NoCall

\* C2: after circuit_breaker_threshold consecutive failed releases on an
\* endpoint, select_endpoint does not return that endpoint while no more
\* than circuit_breaker_timeout seconds have passed since its last failure.
C2_OpenCircuitNotSelected ==
    \A e \in Endpoints :
        (/\ recent_failures[e] >= circuit_breaker_threshold
         /\ now - circuit_breaker_state[e].last_failure <= circuit_breaker_timeout)
        => selected # e

\* C2 witness: A has failed five times in a row, exactly the timeout has
\* passed, A is otherwise eligible, and select_endpoint returned B.
C2_Witness ==
    /\ recent_failures["A"] >= circuit_breaker_threshold
    /\ now - circuit_breaker_state["A"].last_failure = circuit_breaker_timeout
    /\ healthy["A"] /\ current_load["A"] < max_concurrent["A"]
    /\ selected = "B"

\* An endpoint select_endpoint may return: healthy, under capacity, circuit
\* not open.
Eligible(e) ==
    /\ healthy[e]
    /\ current_load[e] < max_concurrent[e]
    /\ circuit_breaker_state[e].state # "open"

\* C4: under every strategy select_endpoint returns only an endpoint that is
\* healthy, under capacity and whose circuit is not open; with A at capacity
\* and B eligible it returns B; it returns none only when no endpoint is
\* eligible.
C4_SelectsOnlyEligible ==
    /\ selected \in Endpoints => Eligible(selected)
    /\ selected = NoEndpoint => \A e \in Endpoints : ~Eligible(e)
    /\ (/\ selected # NoCall
        /\ current_load["A"] = max_concurrent["A"]
        /\ Eligible("B")) => selected = "B"

\* C4 witness: A is healthy with a closed circuit but at capacity, and
\* select_endpoint returned B.
C4_Witness ==
    /\ current_load["A"] = max_concurrent["A"]
    /\ healthy["A"]
    /\ circuit_breaker_state["A"].state = "closed"
    /\ selected = "B"

\* C5: after any interleaving of acquire_endpoint and release_endpoint calls
\* every endpoint has 0 <= current_load <= max_concurrent.
C5_LoadWithinCapacity ==
    \A e \in Endpoints : 0 <= current_load[e] /\ current_load[e] <= max_concurrent[e]

\* C5 witness: more requests than A's capacity have been started and A is
\* full, so acquisitions, a refusal-prone state and releases have all occurred.
C5_Witness ==
    /\ requests_started > MaxConcurrent
    /\ current_load["A"] = max_concurrent["A"]
    /\ current_load["B"] = 0

\* C6: acquire_endpoint on an endpoint whose circuit is open returns false
\* and leaves current_load unchanged.
C6_NoAcquireWhenOpen ==
    [][\A e \in Endpoints :
          circuit_breaker_state[e].state = "open" => ~Acquired(e)]_vars

\* C7: a circuit goes from closed to open only when the N most recent
\* releases on the endpoint were all failures (failures separated by a
\* success do not add up to open it).
C7_OpensOnlyOnConsecutiveFailures ==
    [][\A e \in Endpoints :
          (/\ circuit_breaker_state[e].state = "closed"
           /\ circuit_breaker_state'[e].state = "open")
          => recent_failures'[e] >= circuit_breaker_threshold]_vars

\* C8: one successful release on a half_open endpoint closes the circuit
\* with failure count 0, and the endpoint, if healthy and under capacity, is
\* a candidate of the very next select_endpoint call.
C8_HalfOpenSuccessCloses ==
    [][\A e \in Endpoints :
          (circuit_breaker_state[e].state = "half_open" /\ Released(e, TRUE))
          => /\ circuit_breaker_state'[e].state = "closed"
             /\ circuit_breaker_state'[e].failures = 0
             /\ (healthy'[e] /\ current_load'[e] < max_concurrent[e])
                => e \in Range(available_endpoints')]_vars

\* C8 witness: A failed earlier, its circuit is closed again with count 0
\* (only a success in half_open does that), and select_endpoint returned A.
C8_Witness ==
    /\ circuit_breaker_state["A"].state = "closed"
    /\ circuit_breaker_state["A"].failures = 0
    /\ circuit_breaker_state["A"].last_failure # NoTime
    /\ selected = "A"

\* C9 as stated: once more than circuit_breaker_timeout has elapsed since
\* the last failure of an open endpoint, the next select_endpoint call moves
\* the circuit to half_open and the endpoint is a candidate again.
C9_SelectHalfOpensAfterTimeout ==
    [][\A e \in Endpoints :
          (/\ circuit_breaker_state[e].state = "open"
           /\ now - circuit_breaker_state[e].last_failure > circuit_breaker_timeout
           /\ Selecting)
          => /\ circuit_breaker_state'[e].state = "half_open"
             /\ e \in Range(available_endpoints)]_vars

\* C9 amended: the same, for an endpoint that is healthy and under capacity
\* at that select_endpoint call.
C9_SelectHalfOpensEligibleAfterTimeout ==
    [][\A e \in Endpoints :
          (/\ circuit_breaker_state[e].state = "open"
           /\ now - circuit_breaker_state[e].last_failure > circuit_breaker_timeout
           /\ healthy[e] /\ current_load[e] < max_concurrent[e]
           /\ Selecting)
          => /\ circuit_breaker_state'[e].state = "half_open"
             /\ e \in Range(available_endpoints)]_vars

\* C9 witness: five consecutive failures opened A's circuit, more than the
\* timeout has passed, and select_endpoint moved A to half_open and returned it.
C9_Witness ==
    /\ recent_failures["A"] >= circuit_breaker_threshold
    /\ now - circuit_breaker_state["A"].last_failure > circuit_breaker_timeout
    /\ circuit_breaker_state["A"].state = "half_open"
    /\ selected = "A"

\* C32: the state of an endpoint's circuit changes only from closed to open
\* on a failed release that brings the failure count to the threshold, from
\* open to half_open on a select_endpoint call made after the timeout, from
\* half_open to closed on a successful release (count back to 0), and from
\* half_open to open on a failed release, which a single failure does; a
\* successful release on a closed or open circuit leaves its record as it was.
C32_CircuitTransitions ==
    [][\A e \in Endpoints :
          LET old == circuit_breaker_state[e]
              new == circuit_breaker_state'[e]
          IN /\ old.state # new.state =>
                   \/ /\ old.state = "closed" /\ new.state = "open"
                      /\ Released(e, FALSE)
                      /\ new.failures = circuit_breaker_threshold
                   \/ /\ old.state = "open" /\ new.state = "half_open"
                      /\ Selecting
                      /\ now - old.last_failure > circuit_breaker_timeout
                   \/ /\ old.state = "half_open" /\ new.state = "closed"
                      /\ Released(e, TRUE)
                      /\ new.failures = 0
                   \/ /\ old.state = "half_open" /\ new.state = "open"
                      /\ Released(e, FALSE)
             /\ (old.state = "half_open" /\ Released(e, FALSE)) => new.state = "open"
             /\ (old.state \in {"closed", "open"} /\ Released(e, TRUE)) => new = old]_vars

\* C32 witness: A's circuit opened on its fifth failure, was half-opened by
\* a select after the timeout and closed by one success.
C32_Witness ==
    /\ circuit_breaker_state["A"] =
          [failures |-> 0, last_failure |-> 0, state |-> "closed"]
    /\ success_rate["A"] = 76
    /\ current_load["A"] = 0
    /\ now > circuit_breaker_timeout

(***************************************************************************)
(* Request batcher: properties                                             *)
(***************************************************************************)

\* C1: in a non-priority strategy the submit_request call that brings a
\* queue to max_batch_size flushes a batch of exactly max_batch_size
\* requests at once (trigger: size) and returns its future, so that every
\* call returns and no queue is left holding max_batch_size requests.
C1_SizeTriggeredFlush ==
    batch_strategy # "priority_aware" =>
        \A r \in Requests :
            submit_state[r] # "new" =>
                /\ submit_state[r] = "returned"
                /\ Len(request_queues[request_key[r]]) < MaxBatchSize
                /\ (\E n \in 1..r : Cardinality({q \in 1..n : request_key[q] = request_key[r]})
                                      = MaxBatchSize)
                   => \E i \in 1..Len(batches) :
                         /\ batches[i].key = request_key[r]
                         /\ batches[i].trigger = "size"
                         /\ Len(batches[i].requests) = MaxBatchSize

\* C10: every batch handed to _process_batch holds at most max_batch_size
\* requests, in every strategy.
C10_BatchSizeBounded ==
    \A i \in 1..Len(batches) : Len(batches[i].requests) <= MaxBatchSize

\* C10 witness: a priority-mode flush filled a batch to max_batch_size while
\* more requests of the same key stayed in the heap.
C10_Witness ==
    /\ batch_strategy = "priority_aware"
    /\ \E i \in 1..Len(batches) :
          /\ Len(batches[i].requests) = MaxBatchSize
          /\ \E j \in 1..Len(priority_queue) :
                request_key[priority_queue[j].request] = batches[i].key

\* The batches that hold request r.
BatchesOf(r) == {i \in 1..Len(batches) : r \in Range(batches[i].requests)}

\* Request r is in the batcher's queue (a per-key list or the heap).
Queued(r) ==
    \/ \E k \in BatchKeys : r \in Range(request_queues[k])
    \/ \E j \in 1..Len(priority_queue) : priority_queue[j].request = r

\* Nothing is left to run in the batcher: no timer is asleep, every batch
\* handed over has been processed, and the heap holds nothing to extract.
BatcherQuiescent ==
    /\ \A k \in BatchKeys : batch_timers[k] # "sleeping"
    /\ processed = 1..Len(batches)
    /\ priority_queue = <<>>

\* C11: every request that submit_request has queued is taken out of the
\* queue by exactly one flush and its future is completed exactly once: it
\* is never in two batches, it leaves the queue only into a batch, the
\* future of a processed batch is not left pending, and once the batcher has
\* nothing left to run no queued request is still waiting.
C11_FlushedOnceCompletedOnce ==
    \A r \in Requests :
        (future_state[r] # "none" /\ submit_state[r] # "waiting_for_lock") =>
            /\ Cardinality(BatchesOf(r)) <= 1
            /\ Queued(r) <=> BatchesOf(r) = {}
            /\ \A i \in BatchesOf(r) :
                  i \in processed => future_state[r] \in {"result", "exception"}
            /\ BatcherQuiescent => future_state[r] \in {"result", "exception"}

(***************************************************************************)
(* Inference cache: properties                                             *)
(***************************************************************************)

\* C3: when _execute_batch has finished with a batch, the callers attached
\* to it (those that did not cancel) have either all received their own
\* result or all received the same exception; none is left with a different
\* outcome or still waiting.
C3_BatchAllOrNothing ==
    \A t \in 1..Len(batch_tasks) :
        batch_tasks[t].pc \in {"done", "failed"} =>
            LET live == {c \in Range(batch_tasks[t].pending) :
                            caller_future[c].state # "cancelled"}
            IN \/ \A c \in live :
                     /\ caller_future[c].state = "result"
                     /\ caller_future[c].value = PositionOf(c, batch_tasks[t].futures)
               \/ \E exc \in CacheExceptions :
                     \A c \in live :
                        /\ caller_future[c].state = "exception"
                        /\ caller_future[c].exc = exc

\* C21: with a strategy other than PRIORITY_AWARE, a request that
\* submit_request has queued is eventually placed in a batch, unless its
\* key's queue reaches max_batch_size, whatever happens on the other keys.
C21_TimerFlushesQueue ==
    \A r \in Requests, k \in BatchKeys :
        (/\ batch_strategy # "priority_aware"
         /\ submit_state[r] = "returned"
         /\ r \in Range(request_queues[k]))
        ~> (\/ BatchesOf(r) # {}
            \/ Len(request_queues[k]) >= MaxBatchSize)

\* C28: with strategy PRIORITY_AWARE, the future of every request passed to
\* submit_request is eventually completed.
C28_PriorityRequestsServed ==
    \A r \in Requests :
        (batch_strategy = "priority_aware" /\ future_state[r] = "pending")
        ~> (future_state[r] \in {"result", "exception"})

\* C33: a response of the multi-agent backend reports success only if at
\* least one required agent produced a result; with every required agent
\* failing it reports success = false and carries an error.
C33_AllAgentsFailedIsAnError ==
    (orch_pc = "done" /\ orch_response.backend_used = "multi_agent") =>
        /\ orch_response.success => orch_response.agents_used # {}
        /\ determine_required_agents(orch_request.operation) \subseteq failing_agents
              => (~orch_response.success /\ orch_response.error)

\* C35: a user outside the A/B test with a payload text of at least 10000
\* characters, operation market_intelligence and priority 1 is routed to
\* MULTI_AGENT when the multi-agent metrics are healthy and to MONOLITHIC
\* otherwise.
C35_MostComplexRequestGoesMultiAgent ==
    (/\ orch_pc # "select"
     /\ ~is_ab_test_user(orch_request.user_hash)
     /\ orch_request.data_size >= 10000
     /\ orch_request.operation = "market_intelligence"
     /\ orch_request.priority = 1) =>
        backend_type = (IF is_backend_healthy(performance_history)
                        THEN "multi_agent" ELSE "monolithic")

\* C34: no request list the cache passes to compute_func holds more than
\* max_batch_size requests, however many callers attach within one window.
C34_BatchWithinMaxBatchSize == passed_requests <= cache_max_batch_size

\* The requests in the priority queue.
InHeap == {priority_queue[i].request : i \in 1..Len(priority_queue)}

\* C37: in priority mode, when a flush extracts a priority-1 request queued
\* just now while a priority-3 request of the same batch key has been
\* waiting in the queue for more than 20 seconds, the priority-3 request is
\* in that batch ahead of it.
C37_WaitingRaisesRank ==
    [][\A r3 \in Requests, r1 \in Requests :
          (/\ batch_strategy = "priority_aware"
           /\ r3 \in InHeap /\ r1 \in InHeap
           /\ request_key[r3] = request_key[r1]
           /\ request_priority[r3] = 3 /\ request_priority[r1] = 1
           /\ batch_clock - queued_at[r3] > 20
           /\ queued_at[r1] = batch_clock
           /\ Len(batches') = Len(batches) + 1)
          => LET extracted == batches'[Len(batches')].requests IN
             (\E j \in 1..Len(extracted) : extracted[j] = r1)
                => \E i \in 1..Len(extracted), j \in 1..Len(extracted) :
                      extracted[i] = r3 /\ extracted[j] = r1 /\ i < j]_vars

\* The cache key of the i-th request of the batch.
FanKey(i) == generate_cache_key(fan_operation, fan_requests[i].user_id, fan_requests[i].data)

\* C38: in a cache batch the i-th request receives the i-th result of
\* compute_func, and every result is stored under the key of the request it
\* was computed for: of its own (operation, user, payload), no other key.
C38_ResultByPosition ==
    /\ \A i \in DOMAIN fan_future :
          fan_future[i].state = "result" => fan_future[i].value = i
    /\ \A e \in fan_store :
          e.result \in DOMAIN fan_requests /\ e.key = FanKey(e.result)

\* C38 witness: a batch of two requests with different keys is fanned out,
\* both futures have their result and both results are stored.
C38_Witness ==
    /\ fan_pc = "done"
    /\ Len(fan_requests) >= 2
    /\ FanKey(1) # FanKey(2)
    /\ fan_future[1].state = "result" /\ fan_future[2].state = "result"
    /\ \E e1 \in fan_store, e2 \in fan_store : e1.result = 1 /\ e2.result = 2

\* C39: get_cached_result(operation, u, payload) returns only a value that
\* was stored with user u and computed for a request of user u, also after
\* a batch of requests of several users.
C39_NoResultAcrossUsers ==
    fan_lookup.result # 0 =>
        /\ fan_lookup.stored_for = fan_lookup.user_id
        /\ fan_lookup.result \in DOMAIN fan_requests
        /\ fan_requests[fan_lookup.result].user_id = fan_lookup.user_id

\* C39 witness: a batch held requests of two users with the same payload,
\* both results are stored, and a lookup of one user returned a result.
C39_Witness ==
    /\ fan_lookup.result # 0
    /\ \E i \in DOMAIN fan_requests, j \in DOMAIN fan_requests :
          /\ fan_requests[i].user_id # fan_requests[j].user_id
          /\ fan_requests[i].data = fan_requests[j].data
          /\ fan_requests[i].data = fan_lookup.data
          /\ \E e1 \in fan_store, e2 \in fan_store : e1.result = i /\ e2.result = j

\* C40: with the ADAPTIVE strategy the wait time returned is at least 10 ms
\* and at most twice the base wait time (max_wait_time_ms).
C40_AdaptiveWaitInRange ==
    (wait_strategy = "adaptive" /\ adaptive_wait # NoWait) =>
        /\ min_wait_ms * adaptive_wait.den <= adaptive_wait.num
        /\ adaptive_wait.num <= 2 * max_wait_time_ms * adaptive_wait.den

\* C22: the TTL given to the store write lies in [60, 7200] seconds for
\* every operation, base TTL and confidence.
C22_AdaptiveTTLInRange ==
    setex_ttl # 0 => (60 <= setex_ttl /\ setex_ttl <= 7200)

\* C22 witness: both clamps act: a computed TTL below 60 was raised to 60
\* (an unconfigured operation included), and one above 7200 was cut.
C22_Witness ==
    /\ setex_ttl = 60
    /\ ttl_operation = "unknown_operation"
    /\ ttl_confidence = NoConfidence
    /\ scaled_ttl(ttl_operation, ttl_confidence, base_ttl) < 60
    /\ scaled_ttl("goal_planning", 91, 7200) > 7200
    /\ calculate_adaptive_ttl("goal_planning", 91, 7200) = 7200

\* C23: two payloads that hold the same keys and values, listed in any
\* order at any depth, get the same cache key, and the second request hits
\* the entry stored by the first.
C23_KeyIgnoresMapOrder ==
    SameContent(first_data, second_data) =>
        /\ generate_cache_key(key_operation, key_user, first_data)
              = generate_cache_key(key_operation, key_user, second_data)
        /\ second_lookup # "miss"

\* C23 witness: the second payload lists both its own entries and those of
\* a nested map in another order than the first, and its lookup was a hit.
C23_Witness ==
    /\ SameContent(first_data, second_data)
    /\ Len(first_data) = 2
    /\ first_data[1].k # second_data[1].k
    /\ \E i, j \in 1..2 :
          /\ first_data[i].k = second_data[j].k
          /\ Len(first_data[i].map) = 2
          /\ first_data[i].map # second_data[j].map
    /\ second_lookup = "hit"

(***************************************************************************)
(* Performance alerter: properties                                         *)
(***************************************************************************)

\* The metric type the next _check_threshold call is for.
CheckedMetric == AlertMetrics[check_index]

\* A _check_threshold step that read at least min_samples samples whose
\* statistic is `value`.
ChecksWithSamples(value) ==
    \E count \in StatCounts, store_ok \in BOOLEAN :
        count >= min_samples /\ check_threshold(count, value, store_ok)

\* C24: a check that reads at least min_samples samples whose statistic
\* does not breach the warning threshold takes the metric's active alert out
\* of active_alerts and appends it to alert_history, resolved, with
\* duration_seconds the time since the alert was created.
C24_ResolvedWhenBackUnderWarning ==
    [][\A value \in StatValues(CheckedMetric) :
          (/\ alerting_pc = "checking"
           /\ active_alerts[CheckedMetric] # NoAlert
           /\ ~threshold_exceeded(CheckedMetric, value, alert_threshold(CheckedMetric).warning)
           /\ ChecksWithSamples(value))
          => /\ active_alerts'[CheckedMetric] = NoAlert
             /\ alert_history' =
                   Append(alert_history,
                          [active_alerts[CheckedMetric] EXCEPT
                              !.resolved = TRUE,
                              !.duration_seconds =
                                  alert_clock - active_alerts[CheckedMetric].timestamp])]_vars

\* C24 witness: an alert created in an earlier iteration was resolved by the
\* check of this iteration and is the last entry of the history.
C24_Witness ==
    /\ alerting_pc = "updating"
    /\ alert_history # << >>
    /\ LET alert == alert_history[Len(alert_history)] IN
       /\ alert.resolved
       /\ alert.timestamp < alert_clock
       /\ alert.duration_seconds = alert_clock - alert.timestamp
       /\ active_alerts[alert.metric_type] = NoAlert

\* C31: a check (the step taken while the loop is checking, which records
\* the count it read) that reads no sample, or fewer than min_samples, leaves
\* active_alerts, alert_history and the stored set of active alerts as they
\* were: no alert is created, updated or resolved.
C31_FewSamplesChangeNothing ==
    [][(alerting_pc = "checking" /\ checked_count' # NoCheck /\ checked_count' < min_samples)
          => UNCHANGED <<active_alerts, alert_history, perf_alerts_active>>]_vars

\* C31 witness: in a later iteration the check of the first metric read
\* fewer than min_samples samples, and the alert created earlier from a
\* full window is still active.
C31_Witness ==
    /\ alerting_pc = "checking"
    /\ check_index = 2
    /\ checked_count # NoCheck
    /\ checked_count < min_samples
    /\ active_alerts[AlertMetrics[1]] # NoAlert
    /\ active_alerts[AlertMetrics[1]].timestamp < alert_clock
    /\ active_alerts[AlertMetrics[1]].stats.count >= min_samples

\* The statistic breaches a threshold: below it for the metrics where less
\* is worse, above it for every other metric.
Breaches(m, value, threshold) ==
    IF m \in {"throughput", "cache_hit_rate"} THEN value < threshold ELSE value > threshold

\* The levels of a metric's thresholds the statistic breaches.
BreachedLevels(m, value) ==
    {level \in {"warning", "critical", "emergency"} :
        Breaches(m, value, alert_threshold(m)[level])}

\* The most severe of a non-empty set of levels.
MostSevere(levels) ==
    IF "emergency" \in levels THEN "emergency"
    ELSE IF "critical" \in levels THEN "critical"
    ELSE "warning"

\* C36: the severity of every active alert is the most severe level its
\* current value breaches, and a check with enough samples whose statistic
\* breaches no level leaves no alert of the metric active.
C36_SeverityIsMostSevereBreach ==
    [][/\ \A m \in Range(AlertMetrics) :
             active_alerts'[m] # NoAlert =>
                /\ BreachedLevels(m, active_alerts'[m].current_value) # {}
                /\ active_alerts'[m].severity =
                      MostSevere(BreachedLevels(m, active_alerts'[m].current_value))
       /\ \A value \in StatValues(CheckedMetric) :
             (/\ alerting_pc = "checking"
              /\ BreachedLevels(CheckedMetric, value) = {}
              /\ ChecksWithSamples(value))
             => active_alerts'[CheckedMetric] = NoAlert]_vars

\* C36 witness: a throughput alert is critical on a value below the warning
\* and critical thresholds and above the emergency one, and a response-time
\* alert is an emergency on a value above all three.
C36_Witness ==
    /\ active_alerts["throughput"] # NoAlert
    /\ active_alerts["throughput"].severity = "critical"
    /\ active_alerts["throughput"].current_value = 20
    /\ active_alerts["response_time"] # NoAlert
    /\ active_alerts["response_time"].severity = "emergency"
    /\ active_alerts["response_time"].current_value = 1200

\* active_alerts holds one alert per metric type, under its own key, and
\* none of them is resolved.
ActiveAlertsUnresolved ==
    \A m \in Range(AlertMetrics) :
        active_alerts[m] # NoAlert =>
            /\ active_alerts[m].metric_type = m
            /\ ~active_alerts[m].resolved

\* A _check_threshold step that finds the metric's alert active and leaves
\* it active.
KeepsActiveAlert ==
    /\ alerting_pc = "checking"
    /\ active_alerts[CheckedMetric] # NoAlert
    /\ active_alerts'[CheckedMetric] # NoAlert
    /\ \E count \in StatCounts, value \in StatValues(CheckedMetric), store_ok \in BOOLEAN :
          check_threshold(count, value, store_ok)

\* C25: at most one alert is active per metric type and none is resolved;
\* a check that keeps an alert active changes nothing of it but severity,
\* message and current value.
C25_OneAlertUpdatedInPlace ==
    [][/\ ActiveAlertsUnresolved'
       /\ KeepsActiveAlert =>
             active_alerts'[CheckedMetric] =
                [active_alerts[CheckedMetric] EXCEPT
                    !.severity = active_alerts'[CheckedMetric].severity,
                    !.message = active_alerts'[CheckedMetric].message,
                    !.current_value = active_alerts'[CheckedMetric].current_value]]_vars

\* C25 as the code has it: at most one alert is active per metric type and
\* none is resolved; a check that keeps an alert active changes nothing of
\* it but severity, message, current value and the statistics in its
\* metadata, and the loop's duration update changes duration_seconds only.
C25_OneAlertUpdatedInPlaceWithStats ==
    [][/\ ActiveAlertsUnresolved'
       /\ KeepsActiveAlert =>
             active_alerts'[CheckedMetric] =
                [active_alerts[CheckedMetric] EXCEPT
                    !.severity = active_alerts'[CheckedMetric].severity,
                    !.message = active_alerts'[CheckedMetric].message,
                    !.current_value = active_alerts'[CheckedMetric].current_value,
                    !.stats = active_alerts'[CheckedMetric].stats]
       /\ update_alert_durations =>
             \A m \in Range(AlertMetrics) :
                active_alerts'[m] =
                   [active_alerts[m] EXCEPT
                       !.duration_seconds = active_alerts'[m].duration_seconds]]_vars

\* C25 witness: an alert created as a warning in an earlier iteration was
\* escalated in place: it has its first timestamp and threshold value.
C25_Witness ==
    \E m \in Range(AlertMetrics) :
        /\ active_alerts[m].severity = "critical"
        /\ active_alerts[m].threshold_value = alert_threshold(m).warning
        /\ active_alerts[m].timestamp < alert_clock
        /\ active_alerts[m].current_value # active_alerts[m].threshold_value
        /\ ~active_alerts[m].resolved

(***************************************************************************)
(* Engine: properties                                                      *)
(***************************************************************************)

\* The requests process_request has answered.
Answered == {r \in EngineRequests : engine_request[r].pc = "responded"}

\* A compute call was made for request r.
Computed(r) == engine_request[r].batch # 0

\* The cache key of user u is registered under every tag of its operation.
Registered(u) ==
    \A t \in Range(dependency_patterns(engine_operation, u)) : u \in tag_members'[t]

\* C12: a response whose backend compute failed (computed for the request or
\* read from the cache entry that compute produced) has success=false and a
\* non-empty error; it is never success=true with empty data.
C12_FailureAnsweredAsError ==
    \A r \in Answered :
        engine_request[r].behind = "error" =>
            /\ ~engine_request[r].response.success
            /\ engine_request[r].response.error # "none"
            /\ engine_request[r].response.data # "empty"

\* C13: no store entry holds a compute result that carries an error.
C13_NoErrorResultCached ==
    \A u \in EngineUsers : store[u] # "error"

\* C14: a request whose timeout_ms has run out has been answered with a
\* timeout error and is in no pending list.
C14_TimeoutFailsRequest ==
    \A r \in EngineRequests :
        engine_request[r].timed_out =>
            /\ engine_request[r].pc = "responded"
            /\ engine_request[r].response.error = "timeout"
            /\ r \notin Range(engine_pending)

\* C15: a request submitted after an identical request was answered, with no
\* TTL expiry and no invalidation of its key in between, is answered with
\* cache_hit=true, processing_time_ms=0 and queue_time_ms=0, and no compute
\* call is made for it.
C15_RepeatIsCacheHit ==
    \A r \in Answered :
        engine_request[r].repeat =>
            /\ engine_request[r].response.cache_hit
            /\ engine_request[r].response.processing_time_ms = 0
            /\ engine_request[r].response.queue_time_ms = 0
            /\ ~Computed(r)

\* C16: a store error on a read or a write of a request never becomes the
\* caller's error and never blocks it: a request that met a store error is
\* waiting in the pending list or being computed, or it is answered with the
\* result computed for it (an error only when the compute itself failed).
C16_StoreErrorNeverReachesCaller ==
    \A r \in EngineRequests :
        engine_request[r].store_error =>
            /\ engine_request[r].pc \in {"miss", "computing", "waiting", "responded"}
            /\ engine_request[r].pc = "waiting" => r \in Range(engine_pending)
            /\ r \in Answered =>
                  /\ engine_request[r].response.success = (engine_request[r].behind = "ok")
                  /\ engine_request[r].response.error = "none"
                        <=> engine_request[r].behind = "ok"

\* C16 witness: a request of a coalesced batch met a store error and was
\* answered with its successful result although nothing is stored for it.
C16_Witness ==
    \E r \in Answered :
        /\ engine_request[r].store_error
        /\ Computed(r)
        /\ engine_request[r].batch_enabled
        /\ batch_compatible(engine_operation)
        /\ engine_request[r].response.success
        /\ engine_request[r].user_id \in engine_fresh
        /\ store[engine_request[r].user_id] = NoEntry

\* The _execute_batch tasks of a batch key that are still in their window.
FlushTasks(k) ==
    {t \in 1..Len(batch_tasks) : batch_tasks[t].key = k /\ batch_tasks[t].pc = "sleeping"}

\* The _execute_batch tasks that popped caller c with their pending list.
TasksOf(c) ==
    {t \in 1..Len(batch_tasks) : c \in Range(batch_tasks[t].pending)}

\* The batch keys under which caller c is waiting for the window to end.
PendingKeysOf(c) ==
    {k \in CachePatterns : c \in Range(pending_requests[k].list)}

\* C17: a pending batch key has exactly one scheduled flush task and a key
\* that is not pending has none; every caller is attached to exactly one
\* batch (the pending list of its key, once, or the list one task popped),
\* and a caller that was not cancelled when its list was popped is among
\* the requests of that task's one compute call.
C17_OneFlushPerPendingBatch ==
    /\ \A k \in CachePatterns :
          /\ Cardinality(FlushTasks(k)) = IF pending_requests[k].present THEN 1 ELSE 0
          /\ pending_requests[k].present <=> pending_requests[k].list # << >>
    /\ \A c \in Callers :
          caller_future[c].state # "none" =>
             /\ Cardinality(PendingKeysOf(c)) + Cardinality(TasksOf(c)) = 1
             /\ \A k \in PendingKeysOf(c) :
                   Cardinality({j \in DOMAIN pending_requests[k].list :
                                  pending_requests[k].list[j] = c}) = 1
             /\ \A t \in TasksOf(c) :
                   /\ Cardinality({j \in DOMAIN batch_tasks[t].pending :
                                     batch_tasks[t].pending[j] = c}) = 1
                   /\ caller_future[c].state \in {"pending", "result", "exception"}
                         => c \in Range(batch_tasks[t].futures)

\* C17 witness: three callers arrived within one window, one task popped
\* all three and called compute_func with them, and no other task exists.
C17_Witness ==
    /\ Len(batch_tasks) = 1
    /\ batch_tasks[1].pc = "caching"
    /\ Len(batch_tasks[1].pending) = 3
    /\ Len(batch_tasks[1].futures) = 3
    /\ \A c \in 1..3 : caller_future[c].state # "none"

\* C18: when an invalidate_by_pattern call returns, every key that was
\* registered under the tag (read by the call, or a member of the tag set when
\* the call ends) has been deleted and the tag set is empty.
C18_InvalidationDeletesMembers ==
    [][/\ \A tag \in Tags :
             (/\ \E ok \in BOOLEAN : invalidate_by_pattern(tag, ok)
              /\ invalidation'.pc = "idle")
             => tag_members[tag] = {}
       /\ (invalidation.pc # "idle" /\ invalidation'.pc = "idle")
             => /\ invalidation.pc = "delete_tag"
                /\ tag_members'[invalidation.tag] = {}
                /\ \A u \in invalidation.dep_keys \cup tag_members[invalidation.tag] :
                      store'[u] = NoEntry]_vars

\* C19: after a cache write in which no store command failed, for an
\* operation that has dependency tags, the written key is a member of each
\* of the operation's tag sets.
C19_WrittenKeyRegistered ==
    [][/\ \A r \in EngineRequests, outcome \in ComputeOutcomes :
             compute_unbatched(r, outcome, "none") => Registered(engine_request[r].user_id)
       /\ \A results \in [1..Len(engine_pending) -> ComputeOutcomes] :
             engine_execute_batch(results, [i \in 1..Len(engine_pending) |-> "none"])
             => \A r \in Range(engine_pending) : Registered(engine_request[r].user_id)]_vars

\* C20: when the backend call failed for a request of a coalesced batch,
\* every caller of that batch gets the same error and none gets a
\* successful result.
C20_BatchFailureIsShared ==
    \A r \in Answered, q \in Answered :
        (/\ engine_request[r].batch # 0
         /\ engine_request[q].batch = engine_request[r].batch
         /\ engine_request[r].behind = "error")
        => /\ ~engine_request[q].response.success
           /\ engine_request[q].response.error = engine_request[r].response.error

\* process_request answers request r in this step.
Answers(r) == engine_request[r].pc # "responded" /\ engine_request'[r].pc = "responded"

\* The compute_batch calls that hold endpoint e: between a granted
\* acquire_endpoint and the release_endpoint that follows the inference.
Holders(e) == {w \in ComputeTasks : compute_pc[w] = "inference" /\ compute_endpoint[w] = e}

\* C26: on every endpoint current_load is the number of requests that have
\* acquired it and not released it, cancelled requests holding nothing; so
\* when every request has completed, failed or been cancelled every
\* current_load is 0.
C26_LoadCountsHolders ==
    \A e \in Endpoints : current_load[e] = Cardinality(Holders(e))

\* C30: an endpoint that is marked unhealthy and held by no request is
\* eventually marked healthy again by the health-check loop.
C30_UnhealthyEndpointRecovers ==
    \A e \in Endpoints : (~healthy[e] /\ Holders(e) = {}) ~> healthy[e]

\* C29: a request with cache_enabled=false is never answered from a cache
\* entry (a compute call is made for it) and the step that answers it writes
\* nothing under its key, whatever batch_enabled is.
C29_CacheDisabledBypassesCache ==
    [][\A r \in EngineRequests :
          (Answers(r) /\ ~engine_request'[r].cache_enabled)
          => /\ engine_request'[r].batch # 0
             /\ store'[engine_request'[r].user_id] = store[engine_request'[r].user_id]]_vars

\* C27: every live store entry of an operation that registers dependencies
\* is a member of each of the operation's tag sets, at every point of every
\* interleaving of cache writes and invalidations and after any store
\* failure.
C27_LiveEntryRegistered ==
    registers_dependencies(engine_operation) =>
        \A u \in EngineUsers :
            store[u] # NoEntry =>
                \A t \in Range(dependency_patterns(engine_operation, u)) : u \in tag_members[t]

====
